---- MODULE Spec2Model ----
(***************************************************************************)
(* Model of the Innovation Sandbox HTTP client (package isbclient): the    *)
(* error classifier DecodeAPIError, the content-type gate isJSONResponse,  *)
(* and the verb helpers doGet / doPost / doPatch / doPut / doDelete, plus  *)
(* CreateLeaseAsUser, which talks to the server without a verb helper.     *)
(*                                                                         *)
(* A call is one action: the server's response is an input of the action,  *)
(* and the state records the last call, the response it received, the      *)
(* invocation of DecodeAPIError it made (if any) and what it returned.     *)
(***************************************************************************)
EXTENDS Integers, Sequences, FiniteSets, TLC

VARIABLES
    client,   \* the Client value: BaseURL and Token (client.go:18-22)
    call,     \* the last call: helper name, verb, url, request body
    resp,     \* the HTTP response that call received
    dec,      \* the DecodeAPIError invocation made by that call, if any
    result,   \* what the call returned to its caller
    pc,       \* position of a paginateAll call in its loop (client.go:504-514)
    drainReq, \* the request object req paginateAll was given and mutates
    allItems, \* paginateAll's accumulator
    inflight, \* page requests sent and not yet answered
    sent,     \* every page request sent so far, in order
    served    \* what fetchPage returned to paginateAll so far, in order

drainVars == <<pc, drainReq, allItems, inflight, sent, served>>

vars == <<client, call, resp, dec, result, pc, drainReq, allItems, inflight, sent, served>>

----------------------------------------------------------------------------
(* Byte slices: Go distinguishes a nil []byte from an empty one, while     *)
(* string(b) is "" for both.                                               *)

NilBytes == [nil |-> TRUE, s |-> ""]
Bytes(s) == [nil |-> FALSE, s |-> s]
GoString(b) == b.s

----------------------------------------------------------------------------
(* strings.HasPrefix and strings.Contains, computed on the characters.     *)

HasPrefix(s, p) == Len(s) >= Len(p) /\ SubSeq(s, 1, Len(p)) = p

Contains(s, sub) ==
    \E i \in 0..(Len(s) - Len(sub)) : SubSeq(s, i + 1, i + Len(sub)) = sub

(* Index of the first occurrence of sub in s at or after position from     *)
(* (1-based); 0 when there is none.                                        *)
IndexFrom(s, sub, from) ==
    LET hits == {i \in from..(Len(s) - Len(sub) + 1) :
                    SubSeq(s, i, i + Len(sub) - 1) = sub}
    IN  IF hits = {} THEN 0
        ELSE CHOOSE i \in hits : \A j \in hits : i <= j

(* url.URL.Path of an absolute URL "scheme://host[/path][?query]": what    *)
(* net/http stores in resp.Request.URL.Path for the request it sent.       *)
URLPath(u) ==
    LET sch  == IndexFrom(u, "://", 1)
        rest == IF sch = 0 THEN u ELSE SubSeq(u, sch + 3, Len(u))
        q    == IndexFrom(rest, "?", 1)
        noq  == IF q = 0 THEN rest ELSE SubSeq(rest, 1, q - 1)
        sl   == IndexFrom(noq, "/", 1)
    IN  IF sl = 0 THEN "" ELSE SubSeq(noq, sl, Len(noq))

----------------------------------------------------------------------------
(* JSON values as encoding/json sees them after the syntax pass.           *)

JStr(s)  == [t |-> "str", v |-> s]
JNum(n)  == [t |-> "num", v |-> n]
JObj(o)  == [t |-> "obj", v |-> o]
JArr(a)  == [t |-> "arr", v |-> a]
JNull    == [t |-> "null"]
JInvalid == [t |-> "invalid"]   \* no JSON value can be read: empty input or a syntax error

(* The response bodies the server may send, as raw text.                   *)
RawEmpty       == ""
RawText        == "teapot error"
RawHTML        == "<html><body>Error</body></html>"
RawFailOne     == "{\"status\":\"fail\",\"data\":{\"errors\":[{\"message\":\"conflict error\"}]}}"
RawFailTwo     == "{\"status\":\"fail\",\"data\":{\"errors\":[{\"message\":\"e1\"},{\"message\":\"e2\"}]}}"
RawFailNoData  == "{\"status\":\"fail\"}"
RawFailBadData == "{\"status\":\"fail\",\"data\":\"oops\"}"
RawError       == "{\"status\":\"error\",\"message\":\"server error\",\"code\":500,\"data\":{\"foo\":\"bar\"}}"
RawErrorNoData == "{\"status\":\"error\",\"message\":\"some error\",\"code\":400}"
RawErrorBadCode == "{\"status\":\"error\",\"message\":\"m\",\"code\":\"x\"}"
RawErrorBadErrors == "{\"status\":\"error\",\"message\":\"m\",\"data\":{\"errors\":\"x\"}}"
RawSuccess     == "{\"status\":\"success\",\"data\":{\"userEmail\":\"user@example.com\",\"uuid\":\"lease123\"}}"
RawArray       == "[1]"

(* Success envelopes of the lease operations.  The server may send its own *)
(* leaseId, a different one, or none.                                      *)
RawSuccessServerId ==
    "{\"status\":\"success\",\"data\":{\"userEmail\":\"user@example.com\",\"uuid\":\"lease123\",\"leaseId\":\"server-id\"}}"
RawSuccessNoData == "{\"status\":\"success\"}"
RawFailLease ==
    "{\"status\":\"fail\",\"data\":{\"userEmail\":\"user@example.com\",\"uuid\":\"lease123\"}}"
RawSuccessBadUuid ==
    "{\"status\":\"success\",\"data\":{\"userEmail\":\"user@example.com\",\"uuid\":7}}"

(* Page objects of GET /leases.                                            *)
RawPageA ==
    "{\"status\":\"success\",\"data\":{\"result\":[{\"userEmail\":\"user@example.com\",\"uuid\":\"lease123\",\"leaseId\":\"server-id\"},{\"userEmail\":\"user@example.com\",\"uuid\":\"lease456\"}],\"nextPageIdentifier\":\"page2\"}}"
RawPageB ==
    "{\"status\":\"success\",\"data\":{\"result\":[{\"userEmail\":\"b@example.com\",\"uuid\":\"lease789\"}],\"nextPageIdentifier\":\"p=3&x y\"}}"
RawPageNone ==
    "{\"status\":\"success\",\"data\":{\"result\":[],\"nextPageIdentifier\":\"page2\"}}"
RawPageLast ==
    "{\"status\":\"success\",\"data\":{\"result\":[{\"userEmail\":\"user@example.com\",\"uuid\":\"lease123\"}],\"nextPageIdentifier\":\"\"}}"
RawPageLastAbsent ==
    "{\"status\":\"success\",\"data\":{\"result\":[{\"userEmail\":\"z@example.com\",\"uuid\":\"lease999\",\"leaseId\":\"other-id\"}]}}"
RawPageBadResult ==
    "{\"status\":\"success\",\"data\":{\"result\":\"x\",\"nextPageIdentifier\":\"page2\"}}"

(* Page objects of GET /leaseTemplates and GET /accounts.                  *)
RawTemplatesPage ==
    "{\"status\":\"success\",\"data\":{\"leaseTemplates\":[{\"uuid\":\"tpl1\"},{\"uuid\":\"tpl2\"}],\"nextPageIdentifier\":\"t2\"}}"
RawTemplatesLast ==
    "{\"status\":\"success\",\"data\":{\"leaseTemplates\":[{\"uuid\":\"tpl3\"}]}}"
RawAccountsPage ==
    "{\"status\":\"success\",\"data\":{\"accounts\":[{\"awsAccountId\":\"111111111111\"}],\"nextPageIdentifier\":\"a2\"}}"
RawAccountsLast ==
    "{\"status\":\"success\",\"data\":{\"accounts\":[{\"awsAccountId\":\"222222222222\"}],\"nextPageIdentifier\":\"\"}}"

Bodies ==
    { RawEmpty, RawText, RawHTML, RawFailOne, RawFailTwo, RawFailNoData,
      RawFailBadData, RawError, RawErrorNoData, RawErrorBadCode,
      RawErrorBadErrors, RawSuccess, RawArray }

(* The first JSON value json.Decoder reads from the raw text.              *)
Parse(raw) ==
    CASE raw = RawFailOne ->
            JObj([status |-> JStr("fail"),
                  data |-> JObj([errors |-> JArr(<<JObj([message |-> JStr("conflict error")])>>)])])
      [] raw = RawFailTwo ->
            JObj([status |-> JStr("fail"),
                  data |-> JObj([errors |-> JArr(<<JObj([message |-> JStr("e1")]),
                                                   JObj([message |-> JStr("e2")])>>)])])
      [] raw = RawFailNoData ->
            JObj([status |-> JStr("fail")])
      [] raw = RawFailBadData ->
            JObj([status |-> JStr("fail"), data |-> JStr("oops")])
      [] raw = RawError ->
            JObj([status |-> JStr("error"), message |-> JStr("server error"),
                  code |-> JNum(500), data |-> JObj([foo |-> JStr("bar")])])
      [] raw = RawErrorNoData ->
            JObj([status |-> JStr("error"), message |-> JStr("some error"),
                  code |-> JNum(400)])
      [] raw = RawErrorBadCode ->
            JObj([status |-> JStr("error"), message |-> JStr("m"), code |-> JStr("x")])
      [] raw = RawErrorBadErrors ->
            JObj([status |-> JStr("error"), message |-> JStr("m"),
                  data |-> JObj([errors |-> JStr("x")])])
      [] raw = RawSuccess ->
            JObj([status |-> JStr("success"),
                  data |-> JObj([userEmail |-> JStr("user@example.com"),
                                 uuid |-> JStr("lease123")])])
      [] raw = RawArray -> JArr(<<JNum(1)>>)
      [] raw = RawSuccessServerId ->
            JObj([status |-> JStr("success"),
                  data |-> JObj([userEmail |-> JStr("user@example.com"),
                                 uuid |-> JStr("lease123"),
                                 leaseId |-> JStr("server-id")])])
      [] raw = RawSuccessNoData ->
            JObj([status |-> JStr("success")])
      [] raw = RawFailLease ->
            JObj([status |-> JStr("fail"),
                  data |-> JObj([userEmail |-> JStr("user@example.com"),
                                 uuid |-> JStr("lease123")])])
      [] raw = RawSuccessBadUuid ->
            JObj([status |-> JStr("success"),
                  data |-> JObj([userEmail |-> JStr("user@example.com"),
                                 uuid |-> JNum(7)])])
      [] raw = RawPageA ->
            JObj([status |-> JStr("success"),
                  data |-> JObj([result |-> JArr(<<
                                    JObj([userEmail |-> JStr("user@example.com"),
                                          uuid |-> JStr("lease123"),
                                          leaseId |-> JStr("server-id")]),
                                    JObj([userEmail |-> JStr("user@example.com"),
                                          uuid |-> JStr("lease456")])>>),
                                 nextPageIdentifier |-> JStr("page2")])])
      [] raw = RawPageB ->
            JObj([status |-> JStr("success"),
                  data |-> JObj([result |-> JArr(<<
                                    JObj([userEmail |-> JStr("b@example.com"),
                                          uuid |-> JStr("lease789")])>>),
                                 nextPageIdentifier |-> JStr("p=3&x y")])])
      [] raw = RawPageNone ->
            JObj([status |-> JStr("success"),
                  data |-> JObj([result |-> JArr(<<>>),
                                 nextPageIdentifier |-> JStr("page2")])])
      [] raw = RawPageLast ->
            JObj([status |-> JStr("success"),
                  data |-> JObj([result |-> JArr(<<
                                    JObj([userEmail |-> JStr("user@example.com"),
                                          uuid |-> JStr("lease123")])>>),
                                 nextPageIdentifier |-> JStr("")])])
      [] raw = RawPageLastAbsent ->
            JObj([status |-> JStr("success"),
                  data |-> JObj([result |-> JArr(<<
                                    JObj([userEmail |-> JStr("z@example.com"),
                                          uuid |-> JStr("lease999"),
                                          leaseId |-> JStr("other-id")])>>)])])
      [] raw = RawPageBadResult ->
            JObj([status |-> JStr("success"),
                  data |-> JObj([result |-> JStr("x"),
                                 nextPageIdentifier |-> JStr("page2")])])
      [] raw = RawTemplatesPage ->
            JObj([status |-> JStr("success"),
                  data |-> JObj([leaseTemplates |-> JArr(<<
                                    JObj([uuid |-> JStr("tpl1")]),
                                    JObj([uuid |-> JStr("tpl2")])>>),
                                 nextPageIdentifier |-> JStr("t2")])])
      [] raw = RawTemplatesLast ->
            JObj([status |-> JStr("success"),
                  data |-> JObj([leaseTemplates |-> JArr(<<
                                    JObj([uuid |-> JStr("tpl3")])>>)])])
      [] raw = RawAccountsPage ->
            JObj([status |-> JStr("success"),
                  data |-> JObj([accounts |-> JArr(<<
                                    JObj([awsAccountId |-> JStr("111111111111")])>>),
                                 nextPageIdentifier |-> JStr("a2")])])
      [] raw = RawAccountsLast ->
            JObj([status |-> JStr("success"),
                  data |-> JObj([accounts |-> JArr(<<
                                    JObj([awsAccountId |-> JStr("222222222222")])>>),
                                 nextPageIdentifier |-> JStr("")])])
      [] OTHER -> JInvalid

(* Decoding one member of an object into a Go field of a given type:      *)
(* an absent member or a null leaves the zero value, a value of the right  *)
(* JSON type is stored, any other value is an UnmarshalTypeError.          *)
Has(o, k) == k \in DOMAIN o /\ o[k].t # "null"

IntoString(o, k) ==
    IF ~Has(o, k) THEN [ok |-> TRUE, v |-> ""]
    ELSE IF o[k].t = "str" THEN [ok |-> TRUE, v |-> o[k].v]
    ELSE [ok |-> FALSE, v |-> ""]

IntoInt(o, k) ==
    IF ~Has(o, k) THEN [ok |-> TRUE, v |-> 0]
    ELSE IF o[k].t = "num" THEN [ok |-> TRUE, v |-> o[k].v]
    ELSE [ok |-> FALSE, v |-> 0]

(* map[string]interface{}: nil unless the member is an object.             *)
IntoMap(o, k) ==
    IF ~Has(o, k) THEN [ok |-> TRUE, v |-> JNull]
    ELSE IF o[k].t = "obj" THEN [ok |-> TRUE, v |-> o[k]]
    ELSE [ok |-> FALSE, v |-> JNull]

(* One element of data.errors into a FailErrorDetail.                      *)
IntoFailErrorDetail(e) ==
    IF e.t = "null" THEN [ok |-> TRUE, v |-> [Message |-> ""]]
    ELSE IF e.t = "obj"
         THEN LET m == IntoString(e.v, "message")
              IN  [ok |-> m.ok, v |-> [Message |-> m.v]]
    ELSE [ok |-> FALSE, v |-> [Message |-> ""]]

(* data.errors into []FailErrorDetail (nil slice is the empty sequence).   *)
IntoErrors(o) ==
    IF ~Has(o, "errors") THEN [ok |-> TRUE, v |-> <<>>]
    ELSE IF o["errors"].t = "arr"
         THEN LET a == o["errors"].v
              IN  [ok |-> \A i \in 1..Len(a) : IntoFailErrorDetail(a[i]).ok,
                   v  |-> [i \in 1..Len(a) |-> IntoFailErrorDetail(a[i]).v]]
    ELSE [ok |-> FALSE, v |-> <<>>]

(* json.NewDecoder(body).Decode(&failBody): ok is err == nil.              *)
FailBodyOf(j) ==
        IF j.t = "null" THEN [ok |-> TRUE, Status |-> "", Errors |-> <<>>]
        ELSE IF j.t # "obj" THEN [ok |-> FALSE, Status |-> "", Errors |-> <<>>]
        ELSE LET st == IntoString(j.v, "status")
                 er == IF ~Has(j.v, "data") THEN [ok |-> TRUE, v |-> <<>>]
                       ELSE IF j.v["data"].t = "obj" THEN IntoErrors(j.v["data"].v)
                       ELSE [ok |-> FALSE, v |-> <<>>]
             IN  [ok |-> st.ok /\ er.ok, Status |-> st.v, Errors |-> er.v]

DecodeFailBody(raw) == FailBodyOf(Parse(raw))

(* json.NewDecoder(body).Decode(&errorBody): ok is err == nil.             *)
ErrorBodyOf(j) ==
    LET zero == [ok |-> FALSE, Status |-> "", Message |-> "", Code |-> 0, Data |-> JNull]
    IN  IF j.t = "null" THEN [zero EXCEPT !.ok = TRUE]
        ELSE IF j.t # "obj" THEN zero
        ELSE LET st == IntoString(j.v, "status")
                 ms == IntoString(j.v, "message")
                 cd == IntoInt(j.v, "code")
                 dt == IntoMap(j.v, "data")
             IN  [ok |-> st.ok /\ ms.ok /\ cd.ok /\ dt.ok, Status |-> st.v,
                  Message |-> ms.v, Code |-> cd.v, Data |-> dt.v]

DecodeErrorBody(raw) == ErrorBodyOf(Parse(raw))

----------------------------------------------------------------------------
(* The error values (unnamed/part_002).  Every variant is a record whose   *)
(* kind is the Go type name; embedded APIResponseError fields are inlined. *)

APIRequestError(op, url, err) ==
    [kind |-> "APIRequestError", Op |-> op, URL |-> url, Err |-> err]

APIResponseError(code, body) ==
    [kind |-> "APIResponseError", StatusCode |-> code, Body |-> body, Message |-> ""]

FailResponseError(status, errors, code) ==
    [kind |-> "FailResponseError", Status |-> status, Errors |-> errors,
     StatusCode |-> code]

(* Faulty variant of ServerError: Code taken from the HTTP status instead  *)
(* of the envelope.                                                        *)
ServerError_CodeFromStatus(code, message, ecode, data) ==
    [kind |-> "ServerError", StatusCode |-> code, Message |-> message,
     Code |-> code, Data |-> data]

ServerError(code, message, ecode, data) ==
    [kind |-> "ServerError", StatusCode |-> code, Message |-> message,
     Code |-> ecode, Data |-> data]

BadRequestError(errors, requestBody) ==
    [kind |-> "BadRequestError", StatusCode |-> 400, Message |-> "bad request",
     Errors |-> errors, RequestBody |-> requestBody]

(* Faulty variant of UnauthorizedError: StatusCode fixed at 401.           *)
UnauthorizedError_Fixed401(code) ==
    [kind |-> "UnauthorizedError", StatusCode |-> 401, Message |-> "unauthorized"]

UnauthorizedError(code) ==
    [kind |-> "UnauthorizedError", StatusCode |-> code, Message |-> "unauthorized"]

(* The eight resource-shaped variants share one layout.                    *)
ResourceError(kind, code, message, errors) ==
    [kind |-> kind, StatusCode |-> code, Message |-> message, Errors |-> errors]

(* Faulty variant of NotFoundFor: the lease prefix lacks its trailing      *)
(* slash, so the collection path "/leases" counts as a lease.              *)
NotFoundFor_LoosePrefix(urlPath, errors) ==
    IF HasPrefix(urlPath, "/leases")
    THEN ResourceError("LeaseNotFoundError", 404, "lease not found", errors)
    ELSE IF HasPrefix(urlPath, "/leaseTemplates/")
    THEN ResourceError("LeaseTemplateNotFoundError", 404, "lease template not found", errors)
    ELSE IF HasPrefix(urlPath, "/accounts/")
    THEN ResourceError("AccountNotFoundError", 404, "account not found", errors)
    ELSE ResourceError("NotFoundError", 404, "not found", errors)

(* The path-prefix disambiguation of the 404 branch.                       *)
NotFoundFor(urlPath, errors) ==
    IF HasPrefix(urlPath, "/leases/")
    THEN ResourceError("LeaseNotFoundError", 404, "lease not found", errors)
    ELSE IF HasPrefix(urlPath, "/leaseTemplates/")
    THEN ResourceError("LeaseTemplateNotFoundError", 404, "lease template not found", errors)
    ELSE IF HasPrefix(urlPath, "/accounts/")
    THEN ResourceError("AccountNotFoundError", 404, "account not found", errors)
    ELSE ResourceError("NotFoundError", 404, "not found", errors)

(* Faulty variant of ConflictFor: the account prefix lacks its trailing    *)
(* slash, so the collection path "/accounts" counts as an account.         *)
ConflictFor_LoosePrefix(urlPath, errors) ==
    IF HasPrefix(urlPath, "/leases/")
    THEN ResourceError("LeaseConflictError", 409, "lease conflict", errors)
    ELSE IF HasPrefix(urlPath, "/leaseTemplates/")
    THEN ResourceError("LeaseTemplateConflictError", 409, "lease template conflict", errors)
    ELSE IF HasPrefix(urlPath, "/accounts")
    THEN ResourceError("AccountConflictError", 409, "account conflict", errors)
    ELSE ResourceError("ConflictError", 409, "conflict", errors)

(* The path-prefix disambiguation of the 409 branch.                       *)
ConflictFor(urlPath, errors) ==
    IF HasPrefix(urlPath, "/leases/")
    THEN ResourceError("LeaseConflictError", 409, "lease conflict", errors)
    ELSE IF HasPrefix(urlPath, "/leaseTemplates/")
    THEN ResourceError("LeaseTemplateConflictError", 409, "lease template conflict", errors)
    ELSE IF HasPrefix(urlPath, "/accounts/")
    THEN ResourceError("AccountConflictError", 409, "account conflict", errors)
    ELSE ResourceError("ConflictError", 409, "conflict", errors)

(* The fallback chain after the switch: fail, then error, then generic.    *)
FallbackOn(statusCode, bodyRaw, failBody, errorBody) ==
        IF failBody.ok /\ failBody.Status = "fail"
        THEN FailResponseError(failBody.Status, failBody.Errors, statusCode)
        ELSE IF errorBody.ok /\ errorBody.Status = "error"
        THEN ServerError(statusCode, errorBody.Message, errorBody.Code, errorBody.Data)
        ELSE APIResponseError(statusCode, bodyRaw)

(* Faulty variant of Fallback: the ServerError of the chain is tagged 500  *)
(* instead of the response's status code.                                  *)
Fallback_Tagged500(statusCode, bodyRaw) ==
    LET failBody  == DecodeFailBody(bodyRaw)
        errorBody == DecodeErrorBody(bodyRaw)
    IN  IF failBody.ok /\ failBody.Status = "fail"
        THEN FailResponseError(failBody.Status, failBody.Errors, statusCode)
        ELSE IF errorBody.ok /\ errorBody.Status = "error"
        THEN ServerError(500, errorBody.Message, errorBody.Code, errorBody.Data)
        ELSE APIResponseError(statusCode, bodyRaw)

Fallback(statusCode, bodyRaw) ==
    FallbackOn(statusCode, bodyRaw, DecodeFailBody(bodyRaw), DecodeErrorBody(bodyRaw))

(* The status switch of DecodeAPIError over the two decoded envelopes.     *)
SwitchOn(reqBody, statusCode, bodyRaw, urlPath, failBody, errorBody, failGate) ==
        CASE statusCode = 400 /\ failGate ->
                BadRequestError(failBody.Errors, GoString(reqBody))
          [] statusCode \in {401, 403} /\ failGate ->
                UnauthorizedError(statusCode)
          [] statusCode = 404 /\ failGate ->
                NotFoundFor(urlPath, failBody.Errors)
          [] statusCode = 409 /\ failGate ->
                ConflictFor(urlPath, failBody.Errors)
          [] statusCode = 500 /\ errorBody.ok /\ errorBody.Status = "error" ->
                ServerError(500, errorBody.Message, errorBody.Code, errorBody.Data)
          [] OTHER -> Fallback(statusCode, bodyRaw)

FailGate(failBody) == failBody.ok /\ failBody.Status = "fail"

(* Faulty variant of DecodeAPIError: the unauthorized branch handles 401   *)
(* only, so a 403 Fail Envelope drops into the fallback chain.             *)
DecodeAPIError_Only401(reqBody, statusCode, bodyRaw, urlPath) ==
    LET failBody  == DecodeFailBody(bodyRaw)
        errorBody == DecodeErrorBody(bodyRaw)
        failGate  == failBody.ok /\ failBody.Status = "fail"
    IN  CASE statusCode = 400 /\ failGate ->
                BadRequestError(failBody.Errors, GoString(reqBody))
          [] statusCode = 401 /\ failGate ->
                UnauthorizedError(statusCode)
          [] statusCode = 404 /\ failGate ->
                NotFoundFor(urlPath, failBody.Errors)
          [] statusCode = 409 /\ failGate ->
                ConflictFor(urlPath, failBody.Errors)
          [] statusCode = 500 /\ errorBody.ok /\ errorBody.Status = "error" ->
                ServerError(500, errorBody.Message, errorBody.Code, errorBody.Data)
          [] OTHER -> Fallback(statusCode, bodyRaw)

(* DecodeAPIError(reqBody, resp): statusCode, bodyRaw and urlPath are      *)
(* resp.StatusCode, the bytes of resp.Body and resp.Request.URL.Path.      *)
DecodeAPIError(reqBody, statusCode, bodyRaw, urlPath) ==
    SwitchOn(reqBody, statusCode, bodyRaw, urlPath, DecodeFailBody(bodyRaw),
             DecodeErrorBody(bodyRaw), FailGate(DecodeFailBody(bodyRaw)))

----------------------------------------------------------------------------
(* HTTP responses.  NoResponse stands for "the round trip failed".         *)

Response(code, ctype, body) ==
    [ok |-> TRUE, StatusCode |-> code, ContentType |-> ctype, Body |-> body]

NoResponse == [ok |-> FALSE, StatusCode |-> 0, ContentType |-> "", Body |-> ""]

StatusOK        == 200
StatusCreated   == 201
StatusNoContent == 204

StatusCodes  == {200, 201, 204, 400, 401, 403, 404, 409, 418, 500}

ContentTypes ==
    { "application/json", "application/json; charset=utf-8", "text/html",
      "Application/JSON", "" }

Responses ==
    { Response(c, t, b) : c \in StatusCodes, t \in ContentTypes, b \in Bodies }

(* Responses built by hand for DecodeAPIError, which reads no header.      *)
DirectResponses ==
    { Response(c, "application/json", b) : c \in StatusCodes, b \in Bodies }

(* What the network can hand back to one request.                          *)
RoundTrips == Responses \cup {NoResponse}

(* Faulty variant of isJSONResponse: the empty body is not accepted       *)
(* outright, the content type is examined for it too.                      *)
isJSONResponse_EmptyChecked(rsp) ==
    IF Len(rsp.ContentType) < Len("application/json")
       \/ ~Contains(rsp.ContentType, "application/json")
    THEN [isJSON |-> FALSE, body |-> ""]
    ELSE [isJSON |-> TRUE, body |-> ""]

(* isJSONResponse(resp): buffers the whole body, accepts an empty body     *)
(* outright, otherwise requires "application/json" inside Content-Type.    *)
(* The second component is the string it returns next to the verdict.      *)
isJSONResponse(rsp) ==
    IF Len(rsp.Body) = 0 THEN [isJSON |-> TRUE, body |-> ""]
    ELSE IF Len(rsp.ContentType) < Len("application/json")
            \/ ~Contains(rsp.ContentType, "application/json")
         THEN [isJSON |-> FALSE, body |-> ""]
    ELSE [isJSON |-> TRUE, body |-> ""]

(* fmt.Errorf("non-JSON response (%s): %s", Content-Type, body)            *)
NonJSONErr(ctype, body) ==
    [text |-> "non-JSON response (" \o ctype \o "): " \o body,
     contentType |-> ctype, body |-> body]

(* url.Parse inside http.NewRequestWithContext: err == nil.                *)
ValidURL(u) == IndexFrom(u, "://", 1) > 1

(* The record of one DecodeAPIError invocation, and of none.               *)
NotCalled ==
    [called |-> FALSE, reqBody |-> NilBytes, StatusCode |-> 0, Body |-> "",
     Path |-> "", out |-> [kind |-> "none"]]

Classified(reqBody, rsp, url) ==
    [called |-> TRUE, reqBody |-> reqBody, StatusCode |-> rsp.StatusCode,
     Body |-> rsp.Body, Path |-> URLPath(url),
     out |-> DecodeAPIError(reqBody, rsp.StatusCode, rsp.Body, URLPath(url))]

(* resp returned to the operation with a nil error.                        *)
Returned(rsp) == [kind |-> "response", resp |-> rsp]

(* The helper's return after DecodeAPIError classified the response.      *)
Decoded(d) == [sent |-> TRUE, dec |-> d, result |-> d.out]

(* Faulty variant of doVerb: the status code is examined before the        *)
(* content type, so a non-JSON error page reaches DecodeAPIError.          *)
doVerb_StatusFirst(op, success, decArg, url, rt) ==
    IF ~ValidURL(url)
    THEN [sent |-> FALSE, dec |-> NotCalled,
          result |-> APIRequestError("new_request", url, [text |-> "parse"])]
    ELSE IF ~rt.ok
    THEN [sent |-> TRUE, dec |-> NotCalled,
          result |-> APIRequestError("do", url, [text |-> "round trip"])]
    ELSE IF rt.StatusCode \notin success
    THEN LET d == Classified(decArg, rt, url)
         IN  [sent |-> TRUE, dec |-> d, result |-> d.out]
    ELSE IF ~isJSONResponse(rt).isJSON
    THEN [sent |-> TRUE, dec |-> NotCalled,
          result |-> APIRequestError(op, url,
                        NonJSONErr(rt.ContentType, isJSONResponse(rt).body))]
    ELSE [sent |-> TRUE, dec |-> NotCalled, result |-> Returned(rt)]

(* The body shared by the five verb helpers: build the request, send it,   *)
(* run the content-type gate, then branch on the status code.  op is the   *)
(* helper's name, success its accepted status codes, decArg the request    *)
(* body it hands to DecodeAPIError, rt what the network answers.           *)
doVerb(op, success, decArg, url, rt) ==
    IF ~ValidURL(url)
    THEN [sent |-> FALSE, dec |-> NotCalled,
          result |-> APIRequestError("new_request", url, [text |-> "parse"])]
    ELSE IF ~rt.ok
    THEN [sent |-> TRUE, dec |-> NotCalled,
          result |-> APIRequestError("do", url, [text |-> "round trip"])]
    ELSE IF ~isJSONResponse(rt).isJSON
    THEN [sent |-> TRUE, dec |-> NotCalled,
          result |-> APIRequestError(op, url,
                        NonJSONErr(rt.ContentType, isJSONResponse(rt).body))]
    ELSE IF rt.StatusCode \notin success
    THEN Decoded(Classified(decArg, rt, url))
    ELSE [sent |-> TRUE, dec |-> NotCalled, result |-> Returned(rt)]

doGet(url, rt) == doVerb("doGet", {StatusOK}, NilBytes, url, rt)

(* Faulty variant of doPost: 201 Created is not accepted.                  *)
doPost_Only200(url, body, rt) == doVerb("doPost", {StatusOK}, body, url, rt)

doPost(url, body, rt) == doVerb("doPost", {StatusOK, StatusCreated}, body, url, rt)

(* Faulty variant of doPatch: DecodeAPIError gets nil, not the body sent.  *)
doPatch_NilBody(url, body, rt) == doVerb("doPatch", {StatusOK}, NilBytes, url, rt)

doPatch(url, body, rt) == doVerb("doPatch", {StatusOK}, body, url, rt)

doPut(url, body, rt) == doVerb("doPut", {StatusOK}, body, url, rt)

doDelete(url, rt) == doVerb("doDelete", {StatusOK, StatusNoContent}, NilBytes, url, rt)

----------------------------------------------------------------------------
(* encoding/base64 StdEncoding and encoding/json on the LeaseId components *)

(* Printable ASCII from code 32 to 126.  Code 96 (grave accent) cannot be  *)
(* written in a string here; a second space holds its place, so a lookup   *)
(* of the space still finds code 32.                                       *)
ASCII ==
    " !\"#$%&'()*+,-./0123456789:;<=>?@ABCDEFGHIJKLMNOPQRSTUVWXYZ[\\]^_ abcdefghijklmnopqrstuvwxyz{|}~"

(* Byte value of a one-character string (printable ASCII).                 *)
Ord(c) == IndexFrom(ASCII, c, 1) + 31

ByteAt(s, i) == Ord(SubSeq(s, i, i))

encodeStd == "ABCDEFGHIJKLMNOPQRSTUVWXYZabcdefghijklmnopqrstuvwxyz0123456789+/"

B64Char(n) == SubSeq(encodeStd, n + 1, n + 1)

RECURSIVE EncodeToString(_)
EncodeToString(s) ==
    IF Len(s) = 0 THEN ""
    ELSE IF Len(s) = 1
    THEN LET b1 == ByteAt(s, 1)
         IN  B64Char(b1 \div 4) \o B64Char((b1 % 4) * 16) \o "=="
    ELSE IF Len(s) = 2
    THEN LET b1 == ByteAt(s, 1)
             b2 == ByteAt(s, 2)
         IN  B64Char(b1 \div 4) \o B64Char((b1 % 4) * 16 + b2 \div 16)
             \o B64Char((b2 % 16) * 4) \o "="
    ELSE LET b1 == ByteAt(s, 1)
             b2 == ByteAt(s, 2)
             b3 == ByteAt(s, 3)
         IN  B64Char(b1 \div 4) \o B64Char((b1 % 4) * 16 + b2 \div 16)
             \o B64Char((b2 % 16) * 4 + b3 \div 64) \o B64Char(b3 % 64)
             \o EncodeToString(SubSeq(s, 4, Len(s)))

(* json.Marshal(map[string]string{"userEmail": e, "uuid": u}): keys in     *)
(* sorted order, no whitespace.                                            *)
MarshalLeaseIdComponents(userEmail, uuid) ==
    "{\"userEmail\":\"" \o userEmail \o "\",\"uuid\":\"" \o uuid \o "\"}"

(* json.Marshal of the create-lease body map: "comments" only when set,    *)
(* and before "leaseTemplateUuid" because map keys are sorted.             *)
MarshalCreateLeaseBody(req) ==
    "{" \o (IF req.Comments # "" THEN "\"comments\":\"" \o req.Comments \o "\"," ELSE "")
        \o "\"leaseTemplateUuid\":\"" \o req.LeaseTemplateUUID \o "\"}"

(* Decoding the success wrapper {status, data: Lease}; of the Lease only   *)
(* the fields LeaseId depends on are kept.                                 *)
ZeroLease == [UserEmail |-> "", UUID |-> "", LeaseId |-> ""]

DecodeLeaseWrapper(raw) ==
    LET j == Parse(raw)
    IN  IF j.t = "null" THEN [ok |-> TRUE, Data |-> ZeroLease]
        ELSE IF j.t # "obj" THEN [ok |-> FALSE, Data |-> ZeroLease]
        ELSE IF ~IntoString(j.v, "status").ok THEN [ok |-> FALSE, Data |-> ZeroLease]
        ELSE IF ~Has(j.v, "data") THEN [ok |-> TRUE, Data |-> ZeroLease]
        ELSE IF j.v["data"].t # "obj" THEN [ok |-> FALSE, Data |-> ZeroLease]
        ELSE LET d  == j.v["data"].v
                 em == IntoString(d, "userEmail")
                 uu == IntoString(d, "uuid")
                 li == IntoString(d, "leaseId")
             IN  [ok |-> em.ok /\ uu.ok /\ li.ok,
                  Data |-> [UserEmail |-> em.v, UUID |-> uu.v, LeaseId |-> li.v]]

----------------------------------------------------------------------------
(* Credentials (auth.go).                                                  *)

RoleUser == "User"

NewUserUserClaims(email) ==
    [DisplayName |-> "GitHub", UserName |-> email, Email |-> email,
     Roles |-> <<RoleUser>>]

(* The signed token, kept as what it embeds; validity in minutes.          *)
GenerateJWT(user, secret, expiresIn) ==
    [kind |-> "jwt", User |-> user, Secret |-> secret, ExpiresIn |-> expiresIn]

Opaque(token) == [kind |-> "opaque", s |-> token]

Bearer(cred) == [scheme |-> "Bearer", cred |-> cred]

NoAuth == [scheme |-> "none"]

(* authTransport.RoundTrip: the header the default transport attaches.     *)
RoundTripAuth(c) == IF c.Token # "" THEN Bearer(Opaque(c.Token)) ELSE NoAuth

NewClient(baseURL, token) ==
    [BaseURL |-> baseURL, Token |-> token, Timeout |-> 15]

----------------------------------------------------------------------------
(* CreateLeaseAsUser(ctx, req, userEmail, jwtSecret): its own request, its *)
(* own credential, its own http.Client; no verb helper is involved.        *)

NilRequest == [nil |-> TRUE, LeaseTemplateUUID |-> "", Comments |-> ""]

CreateLeaseRequest(uuid, comments) ==
    [nil |-> FALSE, LeaseTemplateUUID |-> uuid, Comments |-> comments]

JWTValidityMinutes == 15

NotSent == [sent |-> FALSE, method |-> "", url |-> "", body |-> NilBytes,
            contentType |-> "", auth |-> NoAuth]

Sent(method, url, body, ctype, auth) ==
    [sent |-> TRUE, method |-> method, url |-> url, body |-> body,
     contentType |-> ctype, auth |-> auth]

(* Faulty variant of WithLeaseId: the derived LeaseId only fills in for a  *)
(* leaseId the server left out.                                            *)
WithLeaseId_KeepServer(lease) ==
    IF lease.LeaseId # "" THEN lease
    ELSE [lease EXCEPT !.LeaseId =
            EncodeToString(MarshalLeaseIdComponents(lease.UserEmail, lease.UUID))]

(* Lease with the derived LeaseId written over whatever was decoded.       *)
WithLeaseId(lease) ==
    [lease EXCEPT !.LeaseId =
        EncodeToString(MarshalLeaseIdComponents(lease.UserEmail, lease.UUID))]

(* Faulty variant of customClientDo: the request goes through the         *)
(* client's own HTTPClient, whose authTransport rewrites the header.       *)
customClientDo_DefaultTransport(c, header) ==
    IF c.Token # "" THEN Bearer(Opaque(c.Token)) ELSE header

(* customClient.Do(httpReq): the custom client has no authTransport, so    *)
(* the Authorization header set on the request goes out as it is.          *)
customClientDo(c, header) == header

CreateLeaseAsUser(c, req, userEmail, jwtSecret, rt) ==
    IF req.nil \/ req.LeaseTemplateUUID = ""
    THEN [http |-> NotSent, dec |-> NotCalled,
          result |-> APIRequestError("param", "", [text |-> "LeaseTemplateUUID is required"])]
    ELSE
    LET leaseURL == c.BaseURL \o "/leases"
        b        == Bytes(MarshalCreateLeaseBody(req))
        jwt      == GenerateJWT(NewUserUserClaims(userEmail), jwtSecret, JWTValidityMinutes)
        http     == Sent("POST", leaseURL, b, "application/json",
                         customClientDo(c, Bearer(jwt)))
    IN  IF ~ValidURL(leaseURL)
        THEN [http |-> NotSent, dec |-> NotCalled,
              result |-> APIRequestError("new_request", leaseURL, [text |-> "parse"])]
        ELSE IF ~rt.ok
        THEN [http |-> http, dec |-> NotCalled,
              result |-> APIRequestError("do", leaseURL, [text |-> "round trip"])]
        ELSE IF rt.StatusCode # StatusOK /\ rt.StatusCode # StatusCreated
        THEN LET d == Classified(b, rt, leaseURL)
             IN  [http |-> http, dec |-> d, result |-> d.out]
        ELSE LET wrapper == DecodeLeaseWrapper(rt.Body)
             IN  IF ~wrapper.ok
                 THEN [http |-> http, dec |-> NotCalled,
                       result |-> [kind |-> "JSONDecodingError"]]
                 ELSE [http |-> http, dec |-> NotCalled,
                       result |-> [kind |-> "CreateLeaseResponse",
                                   Lease |-> WithLeaseId(wrapper.Data)]]

----------------------------------------------------------------------------
(* net/url: query escaping, url.Values.Encode and the query parser the     *)
(* server applies to what it receives.                                     *)

Unreserved ==
    "ABCDEFGHIJKLMNOPQRSTUVWXYZabcdefghijklmnopqrstuvwxyz0123456789-_.~"

upperhex == "0123456789ABCDEF"

Chr(n) == SubSeq(ASCII, n - 31, n - 31)

Hex(n) == SubSeq(upperhex, n + 1, n + 1)

Unhex(c) == IndexFrom(upperhex, c, 1) - 1

(* url.QueryEscape: unreserved characters stay, a space becomes "+",       *)
(* every other byte becomes %XX.                                           *)
EscapeChar(c) ==
    IF Contains(Unreserved, c) THEN c
    ELSE IF c = " " THEN "+"
    ELSE "%" \o Hex(Ord(c) \div 16) \o Hex(Ord(c) % 16)

RECURSIVE EscapeFrom(_, _)
EscapeFrom(s, i) ==
    IF i > Len(s) THEN ""
    ELSE EscapeChar(SubSeq(s, i, i)) \o EscapeFrom(s, i + 1)

QueryEscape(s) == EscapeFrom(s, 1)

RECURSIVE QueryUnescape(_)
QueryUnescape(s) ==
    IF Len(s) = 0 THEN ""
    ELSE LET c == SubSeq(s, 1, 1)
         IN  IF c = "+" THEN " " \o QueryUnescape(SubSeq(s, 2, Len(s)))
             ELSE IF c = "%" /\ Len(s) >= 3
             THEN Chr(16 * Unhex(SubSeq(s, 2, 2)) + Unhex(SubSeq(s, 3, 3)))
                      \o QueryUnescape(SubSeq(s, 4, Len(s)))
             ELSE c \o QueryUnescape(SubSeq(s, 2, Len(s)))

(* url.Values with one value per key: a function from the keys set.        *)
NoValues == [k \in {} |-> ""]

(* The parameter names of this API in the byte order Encode sorts by.      *)
SortedKeys ==
    <<"comments", "leaseId", "leaseTemplateUuid", "pageIdentifier", "pageSize",
      "userEmail">>

(* url.Values.Encode: "k=v" pairs, sorted by key, joined by "&".           *)
RECURSIVE EncodeFrom(_, _)
EncodeFrom(q, i) ==
    IF i > Len(SortedKeys) THEN ""
    ELSE IF SortedKeys[i] \notin DOMAIN q THEN EncodeFrom(q, i + 1)
    ELSE QueryEscape(SortedKeys[i]) \o "=" \o QueryEscape(q[SortedKeys[i]])
            \o (IF \E j \in (i + 1)..Len(SortedKeys) : SortedKeys[j] \in DOMAIN q
                THEN "&" ELSE "")
            \o EncodeFrom(q, i + 1)

Encode(q) == EncodeFrom(q, 1)

(* url.ParseQuery followed by Get: the first value of each key.            *)
RECURSIVE ParseQuery(_)
ParseQuery(s) ==
    IF Len(s) = 0 THEN NoValues
    ELSE LET amp  == IndexFrom(s, "&", 1)
             pair == IF amp = 0 THEN s ELSE SubSeq(s, 1, amp - 1)
             rest == IF amp = 0 THEN "" ELSE SubSeq(s, amp + 1, Len(s))
             eq   == IndexFrom(pair, "=", 1)
             k    == QueryUnescape(IF eq = 0 THEN pair ELSE SubSeq(pair, 1, eq - 1))
             v    == QueryUnescape(IF eq = 0 THEN "" ELSE SubSeq(pair, eq + 1, Len(pair)))
         IN  IF Len(pair) = 0 THEN ParseQuery(rest)
             ELSE (k :> v) @@ ParseQuery(rest)

(* url.URL.RawQuery of a URL string: what follows the first "?".           *)
URLQuery(u) ==
    LET q == IndexFrom(u, "?", 1)
    IN  IF q = 0 THEN "" ELSE SubSeq(u, q + 1, Len(u))

(* GetLeasesRequest and its methods (types.go).                            *)
NilGetLeasesRequest ==
    [nil |-> TRUE, PageIdentifier |-> "", PageSize |-> "", UserEmail |-> ""]

GetLeasesRequest(pageIdentifier, pageSize, userEmail) ==
    [nil |-> FALSE, PageIdentifier |-> pageIdentifier, PageSize |-> pageSize,
     UserEmail |-> userEmail]

BuildQuery(r) ==
    IF r.nil THEN NoValues
    ELSE LET field == [pageIdentifier |-> r.PageIdentifier,
                       pageSize |-> r.PageSize,
                       userEmail |-> r.UserEmail]
             set   == {k \in DOMAIN field : field[k] # ""}
         IN  [k \in set |-> field[k]]

(* Faulty variant of SetPageIdentifier: the cursor is stored in its        *)
(* query-escaped form, which BuildQuery escapes once more.                 *)
SetPageIdentifier_Escaped(r, next) ==
    IF r.nil THEN [fault |-> TRUE, req |-> r]
    ELSE [fault |-> FALSE, req |-> [r EXCEPT !.PageIdentifier = QueryEscape(next)]]

(* r.PageIdentifier = next through a nil receiver is a nil dereference.    *)
SetPageIdentifier(r, next) ==
    IF r.nil THEN [fault |-> TRUE, req |-> r]
    ELSE [fault |-> FALSE, req |-> [r EXCEPT !.PageIdentifier = next]]

----------------------------------------------------------------------------
(* Decoding the success wrappers of the operation layer.                   *)

(* One JSON value into a Lease.                                            *)
IntoLease(j) ==
    IF j.t = "null" THEN [ok |-> TRUE, v |-> ZeroLease]
    ELSE IF j.t # "obj" THEN [ok |-> FALSE, v |-> ZeroLease]
    ELSE LET em == IntoString(j.v, "userEmail")
             uu == IntoString(j.v, "uuid")
             li == IntoString(j.v, "leaseId")
         IN  [ok |-> em.ok /\ uu.ok /\ li.ok,
              v |-> [UserEmail |-> em.v, UUID |-> uu.v, LeaseId |-> li.v]]

ZeroLeasesResponse == [Leases |-> <<>>, NextPageIdentifier |-> ""]

(* wrapper {status, data: GetLeasesResponse}: data.result into Leases,     *)
(* data.nextPageIdentifier into NextPageIdentifier.                        *)
DecodeLeasesWrapper(raw) ==
    LET j == Parse(raw)
    IN  IF j.t = "null" THEN [ok |-> TRUE, Data |-> ZeroLeasesResponse]
        ELSE IF j.t # "obj" THEN [ok |-> FALSE, Data |-> ZeroLeasesResponse]
        ELSE IF ~IntoString(j.v, "status").ok THEN [ok |-> FALSE, Data |-> ZeroLeasesResponse]
        ELSE IF ~Has(j.v, "data") THEN [ok |-> TRUE, Data |-> ZeroLeasesResponse]
        ELSE IF j.v["data"].t # "obj" THEN [ok |-> FALSE, Data |-> ZeroLeasesResponse]
        ELSE LET d    == j.v["data"].v
                 next == IntoString(d, "nextPageIdentifier")
                 arr  == IF Has(d, "result") /\ d["result"].t = "arr"
                         THEN d["result"].v ELSE <<>>
                 arrOk == ~Has(d, "result") \/ d["result"].t = "arr"
                 ls   == [i \in 1..Len(arr) |-> IntoLease(arr[i])]
             IN  [ok |-> arrOk /\ next.ok /\ \A i \in 1..Len(arr) : ls[i].ok,
                  Data |-> [Leases |-> [i \in 1..Len(arr) |-> ls[i].v],
                            NextPageIdentifier |-> next.v]]

----------------------------------------------------------------------------
(* Operation layer (client.go:56-494).  Every operation is computed from   *)
(* the client, its request and rt, what the network answers to the one     *)
(* request it may send.  The outcome records the request sent (http), the  *)
(* verb helper's own outcome (via), the DecodeAPIError invocation (dec)    *)
(* and what the operation returned (result).                               *)

NoVerb == [sent |-> FALSE, dec |-> NotCalled, result |-> [kind |-> "none"]]

ParamError(msg) ==
    [http |-> NotSent, via |-> NoVerb, dec |-> NotCalled,
     result |-> APIRequestError("param", "", [text |-> msg])]

(* The request a verb helper put on the wire, if it got that far.          *)
HTTPOf(method, url, body, ctype, c, r) ==
    IF r.sent THEN Sent(method, url, body, ctype, RoundTripAuth(c)) ELSE NotSent

JSONDecodingError == [kind |-> "JSONDecodingError"]

NilError == [kind |-> "nil"]

(* Faulty variant of ErrorOnly: an envelope whose status is not "success"  *)
(* is an error although the status code is a success.                      *)
ErrorOnly_StatusChecked(method, url, body, ctype, c, r) ==
    [http |-> HTTPOf(method, url, body, ctype, c, r), via |-> r, dec |-> r.dec,
     result |-> IF r.result.kind # "response" THEN r.result
                ELSE IF Parse(r.result.resp.Body).t = "obj"
                        /\ IntoString(Parse(r.result.resp.Body).v, "status").v # "success"
                THEN APIResponseError(r.result.resp.StatusCode, r.result.resp.Body)
                ELSE NilError]

(* An operation that returns only an error: the helper's error, or nil.    *)
ErrorOnly(method, url, body, ctype, c, r) ==
    [http |-> HTTPOf(method, url, body, ctype, c, r), via |-> r, dec |-> r.dec,
     result |-> IF r.result.kind = "response" THEN NilError ELSE r.result]

(* An operation that unwraps {status, data} with the decoder given and     *)
(* wraps data with Wrap.                                                   *)
Unwrapped(method, url, body, ctype, c, r, Decode(_), Wrap(_)) ==
    [http |-> HTTPOf(method, url, body, ctype, c, r), via |-> r, dec |-> r.dec,
     result |-> IF r.result.kind # "response" THEN r.result
                ELSE IF ~Decode(r.result.resp.Body).ok THEN JSONDecodingError
                ELSE Wrap(Decode(r.result.resp.Body).Data)]

GetLeasesResponse(data) ==
    [kind |-> "GetLeasesResponse", Leases |-> data.Leases,
     NextPageIdentifier |-> data.NextPageIdentifier]

GetLeases(c, r, rt) ==
    LET base == c.BaseURL \o "/leases"
        q    == IF r.nil THEN "" ELSE Encode(BuildQuery(r))
        url  == IF q = "" THEN base ELSE base \o "?" \o q
    IN  IF ~ValidURL(base)
        THEN [http |-> NotSent, via |-> NoVerb, dec |-> NotCalled,
              result |-> APIRequestError("parse", base, [text |-> "parse"])]
        ELSE Unwrapped("GET", url, NilBytes, "", c, doGet(url, rt),
                       DecodeLeasesWrapper, GetLeasesResponse)

NilGetLeaseByIDRequest == [nil |-> TRUE, LeaseID |-> ""]

GetLeaseByIDRequest(id) == [nil |-> FALSE, LeaseID |-> id]

(* Faulty variant of GetLeaseByIDResponse: the read derives the LeaseId    *)
(* as the create path does.                                                *)
GetLeaseByIDResponse_Derived(lease) ==
    [kind |-> "GetLeaseByIDResponse", Lease |-> WithLeaseId(lease)]

GetLeaseByIDResponse(lease) == [kind |-> "GetLeaseByIDResponse", Lease |-> lease]

GetLeaseByID(c, r, rt) ==
    IF r.nil \/ r.LeaseID = "" THEN ParamError("LeaseID is required")
    ELSE LET leaseURL == c.BaseURL \o "/leases/" \o r.LeaseID
         IN  Unwrapped("GET", leaseURL, NilBytes, "", c, doGet(leaseURL, rt),
                       DecodeLeaseWrapper, GetLeaseByIDResponse)

CreateLeaseResponse(lease) == [kind |-> "CreateLeaseResponse", Lease |-> lease]

(* CreateLease unwraps the Lease and then writes the derived LeaseId.      *)
CreateLeaseResponseWithLeaseId(lease) == CreateLeaseResponse(WithLeaseId(lease))

CreateLease(c, r, rt) ==
    IF r.nil \/ r.LeaseTemplateUUID = "" THEN ParamError("LeaseTemplateUUID is required")
    ELSE LET leaseURL == c.BaseURL \o "/leases"
             b        == Bytes(MarshalCreateLeaseBody(r))
         IN  Unwrapped("POST", leaseURL, b, "application/json", c,
                       doPost(leaseURL, b, rt), DecodeLeaseWrapper,
                       CreateLeaseResponseWithLeaseId)

(* UpdateLeaseRequest: LeaseID and four optional (pointer) fields, each    *)
(* either nil or set to a value whose JSON text is kept.                   *)
Unset == [set |-> FALSE, json |-> ""]

SetTo(json) == [set |-> TRUE, json |-> json]

NilUpdateLeaseRequest ==
    [nil |-> TRUE, LeaseID |-> "", MaxSpend |-> Unset, BudgetThresholds |-> Unset,
     ExpirationDate |-> Unset, DurationThresholds |-> Unset]

UpdateLeaseRequest(id, maxSpend, budgetThresholds, expirationDate, durationThresholds) ==
    [nil |-> FALSE, LeaseID |-> id, MaxSpend |-> maxSpend,
     BudgetThresholds |-> budgetThresholds, ExpirationDate |-> expirationDate,
     DurationThresholds |-> durationThresholds]

(* json.Marshal(req): the fields in declaration order; LeaseID has no tag  *)
(* and is written under its Go name, the tagged pointers are omitted when  *)
(* nil.                                                                    *)
MarshalUpdateLeaseRequest(r) ==
    LET opt(key, f) == IF f.set THEN ",\"" \o key \o "\":" \o f.json ELSE ""
    IN  "{\"LeaseID\":\"" \o r.LeaseID \o "\""
            \o opt("maxSpend", r.MaxSpend)
            \o opt("budgetThresholds", r.BudgetThresholds)
            \o opt("expirationDate", r.ExpirationDate)
            \o opt("durationThresholds", r.DurationThresholds)
            \o "}"

UpdateLeaseResponse(lease) == [kind |-> "UpdateLeaseResponse", Lease |-> lease]

UpdateLease(c, r, rt) ==
    IF r.nil \/ r.LeaseID = "" THEN ParamError("LeaseID is required")
    ELSE LET urlStr == c.BaseURL \o "/leases/" \o r.LeaseID
             body   == Bytes(MarshalUpdateLeaseRequest(r))
         IN  Unwrapped("PATCH", urlStr, body, "application/json", c,
                       doPatch(urlStr, body, rt), DecodeLeaseWrapper, UpdateLeaseResponse)

ReviewApprove == "Approve"
ReviewDeny    == "Deny"

NilReviewLeaseRequest == [nil |-> TRUE, LeaseID |-> "", Action |-> ""]

ReviewLeaseRequest(id, action) == [nil |-> FALSE, LeaseID |-> id, Action |-> action]

ReviewLease(c, r, rt) ==
    IF r.nil \/ r.LeaseID = "" \/ (r.Action # ReviewApprove /\ r.Action # ReviewDeny)
    THEN ParamError("LeaseID and Action are required")
    ELSE LET urlStr == c.BaseURL \o "/leases/" \o r.LeaseID \o "/review"
             body   == Bytes("{\"action\":\"" \o r.Action \o "\"}")
         IN  ErrorOnly("POST", urlStr, body, "application/json", c,
                       doPost(urlStr, body, rt))

(* FreezeLease, TerminateLease, RetryCleanup and EjectAccount: a POST with *)
(* a nil body to BaseURL + prefix + id + action; r is [nil, id].           *)
NilIDRequest == [nil |-> TRUE, id |-> ""]

IDRequest(id) == [nil |-> FALSE, id |-> id]

PostAction_NilOnly(c, r, prefix, action, msg, rt) ==
    IF r.nil THEN ParamError(msg)
    ELSE LET urlStr == c.BaseURL \o prefix \o r.id \o action
         IN  ErrorOnly("POST", urlStr, NilBytes, "application/json", c,
                       doPost(urlStr, NilBytes, rt))

PostAction(c, r, prefix, action, msg, rt) ==
    IF r.nil \/ r.id = "" THEN ParamError(msg)
    ELSE LET urlStr == c.BaseURL \o prefix \o r.id \o action
         IN  ErrorOnly("POST", urlStr, NilBytes, "application/json", c,
                       doPost(urlStr, NilBytes, rt))

FreezeLease(c, r, rt) ==
    PostAction(c, r, "/leases/", "/freeze", "LeaseID is required", rt)

TerminateLease(c, r, rt) ==
    PostAction(c, r, "/leases/", "/terminate", "LeaseID is required", rt)

RetryCleanup(c, r, rt) ==
    PostAction(c, r, "/accounts/", "/retryCleanup", "AwsAccountId is required", rt)

EjectAccount(c, r, rt) ==
    PostAction(c, r, "/accounts/", "/eject", "AwsAccountId is required", rt)

DeleteLeaseTemplate(c, r, rt) ==
    IF r.nil \/ r.id = "" THEN ParamError("LeaseTemplateID is required")
    ELSE LET urlStr == c.BaseURL \o "/leaseTemplates/" \o r.id
         IN  ErrorOnly("DELETE", urlStr, NilBytes, "", c, doDelete(urlStr, rt))

(* The other records of the API, each kept by its identifying fields.      *)
ZeroLeaseTemplate == [UUID |-> "", Name |-> ""]

ZeroAccount == [AwsAccountId |-> "", Status |-> ""]

ZeroGlobalConfiguration == [TermsOfService |-> ""]

(* wrapper {status string, data T} for a struct T with the string fields   *)
(* given as JSON key -> Go field name.                                     *)
DecodeStructWrapper(raw, fields, zero) ==
    LET j == Parse(raw)
    IN  IF j.t = "null" THEN [ok |-> TRUE, Data |-> zero]
        ELSE IF j.t # "obj" THEN [ok |-> FALSE, Data |-> zero]
        ELSE IF ~IntoString(j.v, "status").ok THEN [ok |-> FALSE, Data |-> zero]
        ELSE IF ~Has(j.v, "data") THEN [ok |-> TRUE, Data |-> zero]
        ELSE IF j.v["data"].t # "obj" THEN [ok |-> FALSE, Data |-> zero]
        ELSE LET d == j.v["data"].v
             IN  [ok |-> \A k \in DOMAIN fields : IntoString(d, k).ok,
                  Data |-> [f \in DOMAIN zero |->
                               IntoString(d, CHOOSE k \in DOMAIN fields : fields[k] = f).v]]

DecodeLeaseTemplateWrapper(raw) ==
    DecodeStructWrapper(raw, [uuid |-> "UUID", name |-> "Name"], ZeroLeaseTemplate)

DecodeAccountWrapper(raw) ==
    DecodeStructWrapper(raw, [awsAccountId |-> "AwsAccountId", status |-> "Status"],
                        ZeroAccount)

DecodeGlobalConfigurationWrapper(raw) ==
    DecodeStructWrapper(raw, [termsOfService |-> "TermsOfService"],
                        ZeroGlobalConfiguration)

(* The list wrappers of GET /leaseTemplates and GET /accounts: the items   *)
(* under data.leaseTemplates / data.accounts are kept by their number.     *)
DecodeListWrapper(raw, key) ==
    LET zero == [Items |-> <<>>, NextPageIdentifier |-> ""]
        j    == Parse(raw)
    IN  IF j.t = "null" THEN [ok |-> TRUE, Data |-> zero]
        ELSE IF j.t # "obj" THEN [ok |-> FALSE, Data |-> zero]
        ELSE IF ~IntoString(j.v, "status").ok THEN [ok |-> FALSE, Data |-> zero]
        ELSE IF ~Has(j.v, "data") THEN [ok |-> TRUE, Data |-> zero]
        ELSE IF j.v["data"].t # "obj" THEN [ok |-> FALSE, Data |-> zero]
        ELSE LET d    == j.v["data"].v
                 next == IntoString(d, "nextPageIdentifier")
                 isArr == Has(d, key) /\ d[key].t = "arr"
             IN  [ok |-> (~Has(d, key) \/ isArr) /\ next.ok
                          /\ (isArr => \A i \in 1..Len(d[key].v) :
                                           d[key].v[i].t \in {"obj", "null"}),
                  Data |-> [Items |-> IF isArr THEN d[key].v ELSE <<>>,
                            NextPageIdentifier |-> next.v]]

DecodeLeaseTemplatesWrapper(raw) == DecodeListWrapper(raw, "leaseTemplates")

DecodeAccountsWrapper(raw) == DecodeListWrapper(raw, "accounts")

GetLeaseTemplatesResponse(data) ==
    [kind |-> "GetLeaseTemplatesResponse", LeaseTemplates |-> data.Items,
     NextPageIdentifier |-> data.NextPageIdentifier]

GetAccountsResponse(data) ==
    [kind |-> "GetAccountsResponse", Accounts |-> data.Items,
     NextPageIdentifier |-> data.NextPageIdentifier]

(* GetLeaseTemplatesRequest / GetAccountsRequest: PageIdentifier, PageSize *)
BuildPageQuery(r) ==
    IF r.nil THEN NoValues
    ELSE LET field == [pageIdentifier |-> r.PageIdentifier, pageSize |-> r.PageSize]
             set   == {k \in DOMAIN field : field[k] # ""}
         IN  [k \in set |-> field[k]]

NilPageRequest == [nil |-> TRUE, PageIdentifier |-> "", PageSize |-> ""]

PageRequest(pageIdentifier, pageSize) ==
    [nil |-> FALSE, PageIdentifier |-> pageIdentifier, PageSize |-> pageSize]

GetList(c, r, path, rt, Decode(_), Wrap(_)) ==
    LET base == c.BaseURL \o path
        q    == IF r.nil THEN "" ELSE Encode(BuildPageQuery(r))
        url  == IF q = "" THEN base ELSE base \o "?" \o q
    IN  IF ~ValidURL(base)
        THEN [http |-> NotSent, via |-> NoVerb, dec |-> NotCalled,
              result |-> APIRequestError("parse", base, [text |-> "parse"])]
        ELSE Unwrapped("GET", url, NilBytes, "", c, doGet(url, rt), Decode, Wrap)

GetLeaseTemplates(c, r, rt) ==
    GetList(c, r, "/leaseTemplates", rt, DecodeLeaseTemplatesWrapper,
            GetLeaseTemplatesResponse)

GetAccounts(c, r, rt) ==
    GetList(c, r, "/accounts", rt, DecodeAccountsWrapper, GetAccountsResponse)

(* GetConfigurations clears err right after doGet, so its error check      *)
(* never fires: when doGet failed, resp is nil and resp.Body faults.       *)
GlobalConfiguration(data) == [kind |-> "GlobalConfiguration", Data |-> data]

Panic == [kind |-> "panic"]

(* What follows "resp, err := c.doGet(ctx, configURL); err = nil", r being *)
(* what doGet returned.                                                    *)
AfterConfigurationsGet(c, configURL, r) ==
    IF r.result.kind # "response"
    THEN [http |-> HTTPOf("GET", configURL, NilBytes, "", c, r), via |-> r,
          dec |-> r.dec, result |-> Panic]
    ELSE Unwrapped("GET", configURL, NilBytes, "", c, r,
                   DecodeGlobalConfigurationWrapper, GlobalConfiguration)

GetConfigurations(c, rt) ==
    AfterConfigurationsGet(c, c.BaseURL \o "/configurations",
                           doGet(c.BaseURL \o "/configurations", rt))

(* UpdateLeaseTemplateRequest: LeaseTemplateID and the template's fields,  *)
(* of which Name is kept.  json.Marshal writes every field, the untagged   *)
(* LeaseTemplateID under its Go name.                                      *)
NilUpdateLeaseTemplateRequest == [nil |-> TRUE, LeaseTemplateID |-> "", Name |-> ""]

UpdateLeaseTemplateRequest(id, name) ==
    [nil |-> FALSE, LeaseTemplateID |-> id, Name |-> name]

MarshalUpdateLeaseTemplateRequest(r) ==
    "{\"LeaseTemplateID\":\"" \o r.LeaseTemplateID \o "\",\"name\":\"" \o r.Name
        \o "\",\"description\":\"\",\"requiresApproval\":false,\"maxSpend\":0,"
        \o "\"leaseDurationInHours\":0,\"budgetThresholds\":null,"
        \o "\"durationThresholds\":null,\"createdBy\":\"\"}"

UpdateLeaseTemplateResponse(t) ==
    [kind |-> "UpdateLeaseTemplateResponse", LeaseTemplate |-> t]

UpdateLeaseTemplate(c, r, rt) ==
    IF r.nil \/ r.LeaseTemplateID = "" THEN ParamError("LeaseTemplateID is required")
    ELSE LET urlStr == c.BaseURL \o "/leaseTemplates/" \o r.LeaseTemplateID
             body   == Bytes(MarshalUpdateLeaseTemplateRequest(r))
         IN  Unwrapped("PUT", urlStr, body, "application/json", c,
                       doPut(urlStr, body, rt), DecodeLeaseTemplateWrapper,
                       UpdateLeaseTemplateResponse)

(* RegisterAccount checks nothing: a nil request is marshalled as null.    *)
NilRegisterAccountRequest == [nil |-> TRUE, AwsAccountId |-> ""]

RegisterAccountRequest(id) == [nil |-> FALSE, AwsAccountId |-> id]

MarshalRegisterAccountRequest(r) ==
    IF r.nil THEN "null" ELSE "{\"awsAccountId\":\"" \o r.AwsAccountId \o "\"}"

RegisterAccountResponse(a) == [kind |-> "RegisterAccountResponse", Account |-> a]

RegisterAccount(c, r, rt) ==
    LET urlStr == c.BaseURL \o "/accounts"
        body   == Bytes(MarshalRegisterAccountRequest(r))
    IN  Unwrapped("POST", urlStr, body, "application/json", c,
                  doPost(urlStr, body, rt), DecodeAccountWrapper,
                  RegisterAccountResponse)

----------------------------------------------------------------------------
(* Inputs.                                                                 *)

BaseURLs == {"https://isb.example.com", ":bad"}

Tokens == {"token"}

Clients == { NewClient(b, t) : b \in BaseURLs, t \in Tokens }

(* What the callers of the verb helpers append to BaseURL.                 *)
PathSuffixes ==
    { "/leases", "/leases/abc", "/leaseTemplates/abc", "/accounts/abc" }

(* Request paths handed straight to DecodeAPIError, as the unit tests do.  *)
DirectPaths ==
    PathSuffixes \cup
    { "/leaseTemplates", "/accounts", "/other", "/leases/123", "/api/leases/abc", "" }

RequestBodies == {NilBytes, Bytes("{\"action\":\"Approve\"}")}

CreateLeaseRequests ==
    {NilRequest} \cup
    { CreateLeaseRequest(u, c) : u \in {"", "tpl"}, c \in {"", "as user"} }

UserEmails == {"otheruser@example.com"}

Secrets == {"testsecret"}

----------------------------------------------------------------------------
(* State machine: one action per entry point.  A behaviour is one call on  *)
(* a freshly constructed client: the client keeps no state between calls,  *)
(* so every call starts from the state NewClient left.                     *)

NoCall == [op |-> "none", http |-> NotSent]

Idle == call = NoCall

(* No paginateAll call is running.                                         *)
NoDrain ==
    /\ pc = "idle"
    /\ drainReq = [nil |-> TRUE, PageIdentifier |-> "", PageSize |-> "", UserEmail |-> ""]
    /\ allItems = <<>>
    /\ inflight = <<>>
    /\ sent = <<>>
    /\ served = <<>>

Init ==
    /\ client \in Clients
    /\ call = NoCall
    /\ resp = NoResponse
    /\ dec = NotCalled
    /\ result = [kind |-> "none"]
    /\ NoDrain

(* The state after a verb helper ran: r is what the helper computed, rt    *)
(* what the network answered when the request went out.                    *)
AfterVerb(op, method, url, body, ctype, rt, r) ==
    /\ call' = [op |-> op,
                http |-> IF r.sent
                         THEN Sent(method, url, body, ctype, RoundTripAuth(client))
                         ELSE NotSent]
    /\ resp' = IF r.sent THEN rt ELSE NoResponse
    /\ dec' = r.dec
    /\ result' = r.result
    /\ UNCHANGED <<client, drainVars>>

DoGet ==
    /\ Idle
    /\ \E p \in PathSuffixes, rt \in RoundTrips :
           LET url == client.BaseURL \o p
           IN  AfterVerb("doGet", "GET", url, NilBytes, "", rt, doGet(url, rt))

DoPost ==
    /\ Idle
    /\ \E p \in PathSuffixes, body \in RequestBodies, rt \in RoundTrips :
           LET url == client.BaseURL \o p
           IN  AfterVerb("doPost", "POST", url, body, "application/json", rt,
                         doPost(url, body, rt))

DoPatch ==
    /\ Idle
    /\ \E p \in PathSuffixes, body \in RequestBodies, rt \in RoundTrips :
           LET url == client.BaseURL \o p
           IN  AfterVerb("doPatch", "PATCH", url, body, "application/json", rt,
                         doPatch(url, body, rt))

DoPut ==
    /\ Idle
    /\ \E p \in PathSuffixes, body \in RequestBodies, rt \in RoundTrips :
           LET url == client.BaseURL \o p
           IN  AfterVerb("doPut", "PUT", url, body, "application/json", rt,
                         doPut(url, body, rt))

DoDelete ==
    /\ Idle
    /\ \E p \in PathSuffixes, rt \in RoundTrips :
           LET url == client.BaseURL \o p
           IN  AfterVerb("doDelete", "DELETE", url, NilBytes, "", rt, doDelete(url, rt))

(* The state after CreateLeaseAsUser ran: r is what it computed.           *)
AfterCreateLeaseAsUser(rt, r) ==
    /\ call' = [op |-> "CreateLeaseAsUser", http |-> r.http]
    /\ resp' = IF r.http.sent THEN rt ELSE NoResponse
    /\ dec' = r.dec
    /\ result' = r.result
    /\ UNCHANGED <<client, drainVars>>

DoCreateLeaseAsUser ==
    /\ Idle
    /\ \E req \in CreateLeaseRequests, e \in UserEmails, k \in Secrets, rt \in RoundTrips :
           AfterCreateLeaseAsUser(rt, CreateLeaseAsUser(client, req, e, k, rt))

(* DecodeAPIError called on a response built by hand (errors_test.go).     *)
DoDecodeAPIError ==
    /\ Idle
    /\ \E reqBody \in RequestBodies, rt \in DirectResponses, p \in DirectPaths :
           LET out == DecodeAPIError(reqBody, rt.StatusCode, rt.Body, p)
           IN  /\ call' = [op |-> "DecodeAPIError", http |-> NotSent]
               /\ resp' = rt
               /\ dec' = [called |-> TRUE, reqBody |-> reqBody,
                          StatusCode |-> rt.StatusCode, Body |-> rt.Body,
                          Path |-> p, out |-> out]
               /\ result' = out
               /\ UNCHANGED <<client, drainVars>>

Next ==
    \/ DoGet
    \/ DoPost
    \/ DoPatch
    \/ DoPut
    \/ DoDelete
    \/ DoCreateLeaseAsUser
    \/ DoDecodeAPIError

Spec == Init /\ [][Next]_vars

----------------------------------------------------------------------------
(* Operation layer: one action per operation of the Client.  As above, a   *)
(* behaviour is one call on a freshly constructed client.                  *)

OpsTokens == {"token", ""}

OpsClients ==
    { NewClient("https://isb.example.com", t) : t \in OpsTokens }
        \cup { NewClient(":bad", "token"), NewClient("https://isb.example.com/api", "token") }

OpsStatusCodes == {200, 201, 204, 404, 409, 500}

OpsContentTypes == {"application/json", "text/html", ""}

OpsBodies ==
    { RawEmpty, RawHTML, RawFailOne, RawSuccess, RawSuccessServerId,
      RawSuccessNoData, RawSuccessBadUuid, RawPageA, RawFailLease, RawErrorNoData }

OpsRoundTrips ==
    { Response(c, t, b) : c \in OpsStatusCodes, t \in OpsContentTypes, b \in OpsBodies }
        \cup {NoResponse}

GetLeasesRequests ==
    { NilGetLeasesRequest, GetLeasesRequest("", "", ""),
      GetLeasesRequest("page2", "10", "user@example.com") }

GetLeaseByIDRequests ==
    { NilGetLeaseByIDRequest, GetLeaseByIDRequest(""), GetLeaseByIDRequest("abc") }

UpdateLeaseRequests ==
    { NilUpdateLeaseRequest,
      UpdateLeaseRequest("", Unset, Unset, Unset, Unset),
      UpdateLeaseRequest("abc", Unset, Unset, Unset, Unset),
      UpdateLeaseRequest("abc", SetTo("100"), Unset, SetTo("\"2026-01-01\""), Unset) }

ReviewLeaseRequests ==
    { NilReviewLeaseRequest, ReviewLeaseRequest("abc", ReviewApprove),
      ReviewLeaseRequest("", ReviewDeny), ReviewLeaseRequest("abc", "Maybe") }

IDRequests == { NilIDRequest, IDRequest(""), IDRequest("abc") }

PageRequests == { NilPageRequest, PageRequest("page2", "10") }

UpdateLeaseTemplateRequests ==
    { NilUpdateLeaseTemplateRequest, UpdateLeaseTemplateRequest("", "n"),
      UpdateLeaseTemplateRequest("abc", "n") }

RegisterAccountRequests ==
    { NilRegisterAccountRequest, RegisterAccountRequest(""),
      RegisterAccountRequest("123456789012") }

InitOps ==
    /\ client \in OpsClients
    /\ call = NoCall
    /\ resp = NoResponse
    /\ dec = NotCalled
    /\ result = [kind |-> "none"]
    /\ NoDrain

(* The state after an operation ran: args are its arguments, r what it     *)
(* computed, rt what the network answered if a request went out.           *)
AfterOp(op, args, rt, r) ==
    /\ call' = [op |-> op, http |-> r.http, args |-> args, via |-> r.via]
    /\ resp' = IF r.http.sent THEN rt ELSE NoResponse
    /\ dec' = r.dec
    /\ result' = r.result
    /\ UNCHANGED <<client, drainVars>>

CallGetLeases ==
    /\ Idle
    /\ \E r \in GetLeasesRequests, rt \in OpsRoundTrips :
           AfterOp("GetLeases", [req |-> r], rt, GetLeases(client, r, rt))

CallGetLeaseByID ==
    /\ Idle
    /\ \E r \in GetLeaseByIDRequests, rt \in OpsRoundTrips :
           AfterOp("GetLeaseByID", [req |-> r], rt, GetLeaseByID(client, r, rt))

CallCreateLease ==
    /\ Idle
    /\ \E r \in CreateLeaseRequests, rt \in OpsRoundTrips :
           AfterOp("CreateLease", [req |-> r], rt, CreateLease(client, r, rt))

(* CreateLeaseAsUser goes through no verb helper.                          *)
WithNoVerb(r) == [http |-> r.http, via |-> NoVerb, dec |-> r.dec, result |-> r.result]

CallCreateLeaseAsUser ==
    /\ Idle
    /\ \E r \in CreateLeaseRequests, e \in UserEmails, k \in Secrets,
          rt \in OpsRoundTrips :
           AfterOp("CreateLeaseAsUser", [req |-> r, userEmail |-> e, jwtSecret |-> k],
                   rt, WithNoVerb(CreateLeaseAsUser(client, r, e, k, rt)))

CallUpdateLease ==
    /\ Idle
    /\ \E r \in UpdateLeaseRequests, rt \in OpsRoundTrips :
           AfterOp("UpdateLease", [req |-> r], rt, UpdateLease(client, r, rt))

CallReviewLease ==
    /\ Idle
    /\ \E r \in ReviewLeaseRequests, rt \in OpsRoundTrips :
           AfterOp("ReviewLease", [req |-> r], rt, ReviewLease(client, r, rt))

CallFreezeLease ==
    /\ Idle
    /\ \E r \in IDRequests, rt \in OpsRoundTrips :
           AfterOp("FreezeLease", [req |-> r], rt, FreezeLease(client, r, rt))

CallTerminateLease ==
    /\ Idle
    /\ \E r \in IDRequests, rt \in OpsRoundTrips :
           AfterOp("TerminateLease", [req |-> r], rt, TerminateLease(client, r, rt))

CallRetryCleanup ==
    /\ Idle
    /\ \E r \in IDRequests, rt \in OpsRoundTrips :
           AfterOp("RetryCleanup", [req |-> r], rt, RetryCleanup(client, r, rt))

CallEjectAccount ==
    /\ Idle
    /\ \E r \in IDRequests, rt \in OpsRoundTrips :
           AfterOp("EjectAccount", [req |-> r], rt, EjectAccount(client, r, rt))

CallDeleteLeaseTemplate ==
    /\ Idle
    /\ \E r \in IDRequests, rt \in OpsRoundTrips :
           AfterOp("DeleteLeaseTemplate", [req |-> r], rt,
                   DeleteLeaseTemplate(client, r, rt))

CallUpdateLeaseTemplate ==
    /\ Idle
    /\ \E r \in UpdateLeaseTemplateRequests, rt \in OpsRoundTrips :
           AfterOp("UpdateLeaseTemplate", [req |-> r], rt,
                   UpdateLeaseTemplate(client, r, rt))

CallRegisterAccount ==
    /\ Idle
    /\ \E r \in RegisterAccountRequests, rt \in OpsRoundTrips :
           AfterOp("RegisterAccount", [req |-> r], rt, RegisterAccount(client, r, rt))

CallGetLeaseTemplates ==
    /\ Idle
    /\ \E r \in PageRequests, rt \in OpsRoundTrips :
           AfterOp("GetLeaseTemplates", [req |-> r], rt,
                   GetLeaseTemplates(client, r, rt))

CallGetAccounts ==
    /\ Idle
    /\ \E r \in PageRequests, rt \in OpsRoundTrips :
           AfterOp("GetAccounts", [req |-> r], rt, GetAccounts(client, r, rt))

CallGetConfigurations ==
    /\ Idle
    /\ \E rt \in OpsRoundTrips :
           AfterOp("GetConfigurations", <<>>, rt, GetConfigurations(client, rt))

NextOps ==
    \/ CallGetLeases
    \/ CallGetLeaseByID
    \/ CallCreateLease
    \/ CallCreateLeaseAsUser
    \/ CallUpdateLease
    \/ CallReviewLease
    \/ CallFreezeLease
    \/ CallTerminateLease
    \/ CallRetryCleanup
    \/ CallEjectAccount
    \/ CallDeleteLeaseTemplate
    \/ CallUpdateLeaseTemplate
    \/ CallRegisterAccount
    \/ CallGetLeaseTemplates
    \/ CallGetAccounts
    \/ CallGetConfigurations

SpecOps == InitOps /\ [][NextOps]_vars

----------------------------------------------------------------------------
(* paginateAll and the three FetchAll operations built on it.  The drain   *)
(* is a loop around a network call, so it is a process: pc is "fetch"      *)
(* when the loop is about to call fetchPage, "wait" while the page request *)
(* is on the wire, "done" once paginateAll returned and "fault" when it    *)
(* panicked.  sent lists the URLs requested, served what each fetchPage    *)
(* call returned, allItems is the accumulator, drainReq the request the    *)
(* loop mutates.                                                           *)

MaxFetches == 3

FetchAllOperations == {"FetchAllLeases", "FetchAllLeaseTemplates", "FetchAllAccounts"}

(* The single-page operation each FetchAll closure calls.                  *)
GetPage(op, c, r, rt) ==
    CASE op = "FetchAllLeases"         -> GetLeases(c, r, rt)
      [] op = "FetchAllLeaseTemplates" -> GetLeaseTemplates(c, r, rt)
      [] op = "FetchAllAccounts"       -> GetAccounts(c, r, rt)

(* What the closure hands to paginateAll: items, nextPage, err.            *)
PageOf(out) ==
    CASE out.kind = "GetLeasesResponse" ->
            [err |-> NilError, items |-> out.Leases, next |-> out.NextPageIdentifier]
      [] out.kind = "GetLeaseTemplatesResponse" ->
            [err |-> NilError, items |-> out.LeaseTemplates, next |-> out.NextPageIdentifier]
      [] out.kind = "GetAccountsResponse" ->
            [err |-> NilError, items |-> out.Accounts, next |-> out.NextPageIdentifier]
      [] OTHER ->
            [err |-> out, items |-> <<>>, next |-> ""]

(* Faulty variant of appendItems: the page goes in front.                  *)
appendItems_InFront(acc, items) == items \o acc

(* allItems = append(allItems, items...)                                   *)
appendItems(acc, items) == acc \o items

(* Faulty variant of ReturnError: the items gathered so far are returned   *)
(* next to the error.                                                      *)
ReturnError_Partial(acc, err) ==
    [kind |-> "FetchAllReturn", isNil |-> FALSE, Items |-> acc, err |-> err]

(* return nil, err: of paginateAll and of the FetchAll operation.          *)
ReturnError(acc, err) ==
    [kind |-> "FetchAllReturn", isNil |-> TRUE, Items |-> <<>>, err |-> err]

(* return allItems, nil, wrapped into the operation's response.            *)
ReturnItems(acc) ==
    [kind |-> "FetchAllReturn", isNil |-> FALSE, Items |-> acc, err |-> NilError]

(* Faulty variant of EndOfPages: a cursor the request already carries      *)
(* ends the loop too.                                                      *)
EndOfPages_Dedup(r, nextPage) == nextPage = "" \/ nextPage = r.PageIdentifier

(* if nextPage == "" { break }                                             *)
EndOfPages(r, nextPage) == nextPage = ""

(* Faulty variant of AfterFetch: a failed fetch is tried again.            *)
AfterFetch_Retry(acc, r, page) ==
    IF page.err # NilError
    THEN [pc |-> "fetch", allItems |-> acc, req |-> r, ret |-> [kind |-> "none"]]
    ELSE IF EndOfPages(r, page.next)
    THEN [pc |-> "done", allItems |-> appendItems(acc, page.items), req |-> r,
          ret |-> ReturnItems(appendItems(acc, page.items))]
    ELSE IF SetPageIdentifier(r, page.next).fault
    THEN [pc |-> "fault", allItems |-> appendItems(acc, page.items), req |-> r,
          ret |-> Panic]
    ELSE [pc |-> "fetch", allItems |-> appendItems(acc, page.items),
          req |-> SetPageIdentifier(r, page.next).req, ret |-> [kind |-> "none"]]

(* One turn of the loop after fetchPage returned page.                     *)
AfterFetch(acc, r, page) ==
    IF page.err # NilError
    THEN [pc |-> "done", allItems |-> acc, req |-> r, ret |-> ReturnError(acc, page.err)]
    ELSE IF EndOfPages(r, page.next)
    THEN [pc |-> "done", allItems |-> appendItems(acc, page.items), req |-> r,
          ret |-> ReturnItems(appendItems(acc, page.items))]
    ELSE IF SetPageIdentifier(r, page.next).fault
    THEN [pc |-> "fault", allItems |-> appendItems(acc, page.items), req |-> r,
          ret |-> Panic]
    ELSE [pc |-> "fetch", allItems |-> appendItems(acc, page.items),
          req |-> SetPageIdentifier(r, page.next).req, ret |-> [kind |-> "none"]]

DrainClients == Clients

LeasesDrainRequests ==
    { NilGetLeasesRequest, GetLeasesRequest("", "", ""),
      GetLeasesRequest("start", "10", "user@example.com") }

PageDrainRequests == { NilPageRequest, PageRequest("", ""), PageRequest("t0", "10") }

DrainRequests(op) ==
    IF op = "FetchAllLeases" THEN LeasesDrainRequests ELSE PageDrainRequests

(* What the server may answer to a page request.                           *)
FailedRoundTrips ==
    { NoResponse, Response(500, "application/json", RawError),
      Response(200, "text/html", RawHTML) }

DrainRoundTrips(op) ==
    FailedRoundTrips \cup
    { Response(200, "application/json", b) :
        b \in CASE op = "FetchAllLeases" ->
                      { RawPageA, RawPageB, RawPageNone, RawPageLast,
                        RawPageLastAbsent, RawPageBadResult }
                [] op = "FetchAllLeaseTemplates" -> { RawTemplatesPage, RawTemplatesLast }
                [] op = "FetchAllAccounts" -> { RawAccountsPage, RawAccountsLast } }

(* The cursors a page can carry, and with them every request the loop can  *)
(* hold.                                                                   *)
DrainCursors(op) ==
    { PageOf(GetPage(op, c, r, rt).result).next :
        c \in DrainClients, r \in DrainRequests(op), rt \in DrainRoundTrips(op) }

LoopRequests(op) ==
    DrainRequests(op) \cup
    { [r EXCEPT !.PageIdentifier = p] :
        r \in {x \in DrainRequests(op) : ~x.nil}, p \in DrainCursors(op) }

PageCalls ==
    UNION { { <<op, c, r, rt>> :
                c \in DrainClients, r \in LoopRequests(op), rt \in DrainRoundTrips(op) } :
            op \in FetchAllOperations }

(* GetPage tabulated over the calls a drain can make: each is computed     *)
(* once.                                                                   *)
GetPageTable == [x \in PageCalls |-> GetPage(x[1], x[2], x[3], x[4])] @@ <<>>

(* fetchPage(ctx, req): the closure of the FetchAll operation.             *)
fetchPage(op, c, r, rt) ==
    IF <<op, c, r, rt>> \in DOMAIN GetPageTable
    THEN GetPageTable[<<op, c, r, rt>>]
    ELSE GetPage(op, c, r, rt)

InitDrain ==
    /\ client \in DrainClients
    /\ call = NoCall
    /\ resp = NoResponse
    /\ dec = NotCalled
    /\ result = [kind |-> "none"]
    /\ NoDrain

(* FetchAllLeases / FetchAllLeaseTemplates / FetchAllAccounts is called:   *)
(* paginateAll starts with an empty accumulator and the caller's request.  *)
StartDrain ==
    /\ Idle /\ pc = "idle"
    /\ \E op \in FetchAllOperations : \E r \in DrainRequests(op) :
          /\ call' = [op |-> op, http |-> NotSent, args |-> [req |-> r], via |-> NoVerb]
          /\ drainReq' = r
    /\ pc' = "fetch"
    /\ allItems' = <<>>
    /\ UNCHANGED <<client, resp, dec, result, inflight, sent, served>>

(* fetchPage is called and its request goes out.                           *)
SendPageOf(h) ==
    /\ h.sent
    /\ inflight' = Append(inflight, h.url)
    /\ sent' = Append(sent, h.url)
    /\ call' = [call EXCEPT !.http = h]
    /\ pc' = "wait"
    /\ UNCHANGED <<client, resp, dec, result, drainReq, allItems, served>>

SendPage ==
    /\ pc = "fetch" /\ Len(served) < MaxFetches
    /\ SendPageOf(fetchPage(call.op, client, drainReq, NoResponse).http)

(* The state after fetchPage returned page and the loop took its turn.     *)
Turn(page, next) ==
    /\ served' = Append(served, page)
    /\ pc' = next.pc
    /\ allItems' = next.allItems
    /\ drainReq' = next.req
    /\ result' = next.ret

TurnOf(page) == Turn(page, AfterFetch(allItems, drainReq, page))

(* fetchPage fails before any request: the URL does not parse.             *)
RejectPageOf(r) ==
    /\ ~r.http.sent
    /\ TurnOf(PageOf(r.result))
    /\ UNCHANGED <<client, call, resp, dec, inflight, sent>>

RejectPage ==
    /\ pc = "fetch" /\ Len(served) < MaxFetches
    /\ RejectPageOf(fetchPage(call.op, client, drainReq, NoResponse))

(* The answer to the page request arrives and fetchPage returns.           *)
ReceivePageOf(r, rt) ==
    /\ inflight' = Tail(inflight)
    /\ resp' = rt
    /\ dec' = r.dec
    /\ TurnOf(PageOf(r.result))
    /\ UNCHANGED <<client, call, sent>>

ReceivePage ==
    /\ pc = "wait"
    /\ \E rt \in DrainRoundTrips(call.op) :
          ReceivePageOf(fetchPage(call.op, client, drainReq, rt), rt)

NextDrain ==
    \/ StartDrain
    \/ SendPage
    \/ RejectPage
    \/ ReceivePage

SpecDrain == InitDrain /\ [][NextDrain]_vars

(* The loop runs on: a pending fetchPage call is made, and the HTTP        *)
(* client's timeout bounds the wait for its answer.                        *)
SpecDrainFair ==
    /\ SpecDrain
    /\ WF_vars(SendPage)
    /\ WF_vars(RejectPage)
    /\ WF_vars(ReceivePage)

----------------------------------------------------------------------------
(* Properties of the error classifier.  They are stated over the recorded  *)
(* invocation dec, so they cover DecodeAPIError however it was reached:    *)
(* from a verb helper, from CreateLeaseAsUser, or called directly.         *)

(* The gate "decodes as a Fail Envelope and its status is fail".           *)
IsFailEnvelope(raw) == DecodeFailBody(raw).ok /\ DecodeFailBody(raw).Status = "fail"

(* The gate "decodes as an Error Envelope and its status is error".        *)
IsErrorEnvelope(raw) == DecodeErrorBody(raw).ok /\ DecodeErrorBody(raw).Status = "error"

(* C1: on status 404 with a Fail Envelope body the error is                *)
(* LeaseNotFoundError for a path starting with "/leases/",                 *)
(* LeaseTemplateNotFoundError for "/leaseTemplates/", AccountNotFoundError *)
(* for "/accounts/", NotFoundError for every other path; it carries        *)
(* StatusCode 404 and the envelope's detail-error list.                    *)
C1_NotFoundByPath ==
    (dec.called /\ dec.StatusCode = 404 /\ IsFailEnvelope(dec.Body)) =>
        /\ dec.out.kind =
              IF HasPrefix(dec.Path, "/leases/") THEN "LeaseNotFoundError"
              ELSE IF HasPrefix(dec.Path, "/leaseTemplates/") THEN "LeaseTemplateNotFoundError"
              ELSE IF HasPrefix(dec.Path, "/accounts/") THEN "AccountNotFoundError"
              ELSE "NotFoundError"
        /\ dec.out.StatusCode = 404
        /\ dec.out.Errors = DecodeFailBody(dec.Body).Errors
        /\ result = dec.out

C1_Witness ==
    /\ dec.called /\ dec.StatusCode = 404 /\ dec.Body = RawFailTwo
    /\ dec.Path = "/leaseTemplates/abc"
    /\ result.kind = "LeaseTemplateNotFoundError"
    /\ result.Errors = <<[Message |-> "e1"], [Message |-> "e2"]>>

(* C2: on status 409 with a Fail Envelope body the error is                *)
(* LeaseConflictError / LeaseTemplateConflictError / AccountConflictError  *)
(* by the same path prefixes and ConflictError otherwise, the collection   *)
(* paths "/leases", "/leaseTemplates", "/accounts" included; it carries    *)
(* StatusCode 409 and the detail-error list.                               *)
C2_ConflictByPath ==
    (dec.called /\ dec.StatusCode = 409 /\ IsFailEnvelope(dec.Body)) =>
        /\ dec.out.kind =
              IF HasPrefix(dec.Path, "/leases/") THEN "LeaseConflictError"
              ELSE IF HasPrefix(dec.Path, "/leaseTemplates/") THEN "LeaseTemplateConflictError"
              ELSE IF HasPrefix(dec.Path, "/accounts/") THEN "AccountConflictError"
              ELSE "ConflictError"
        /\ (dec.Path \in {"/leases", "/leaseTemplates", "/accounts"}
                => dec.out.kind = "ConflictError")
        /\ dec.out.StatusCode = 409
        /\ dec.out.Errors = DecodeFailBody(dec.Body).Errors
        /\ result = dec.out

C2_Witness ==
    /\ dec.called /\ dec.StatusCode = 409 /\ dec.Body = RawFailOne
    /\ dec.Path = "/accounts"
    /\ result.kind = "ConflictError"
    /\ result.Errors = <<[Message |-> "conflict error"]>>

(* The status-specific gate of the switch succeeded.                       *)
GateSucceeded(code, raw) ==
    \/ code \in {400, 401, 403, 404, 409} /\ IsFailEnvelope(raw)
    \/ code = 500 /\ IsErrorEnvelope(raw)

(* C3: when the status-specific gate does not succeed, a Fail Envelope     *)
(* body yields FailResponseError (status "fail", the actual status code,   *)
(* the detail list); otherwise an Error Envelope body yields ServerError   *)
(* (message, code, data, the actual status code); otherwise                *)
(* APIResponseError with the actual status code and the raw body text.     *)
C3_FallbackChain ==
    (dec.called /\ ~GateSucceeded(dec.StatusCode, dec.Body)) =>
        IF IsFailEnvelope(dec.Body)
        THEN /\ dec.out.kind = "FailResponseError"
             /\ dec.out.Status = "fail"
             /\ dec.out.StatusCode = dec.StatusCode
             /\ dec.out.Errors = DecodeFailBody(dec.Body).Errors
        ELSE IF IsErrorEnvelope(dec.Body)
        THEN /\ dec.out.kind = "ServerError"
             /\ dec.out.StatusCode = dec.StatusCode
             /\ dec.out.Message = DecodeErrorBody(dec.Body).Message
             /\ dec.out.Code = DecodeErrorBody(dec.Body).Code
             /\ dec.out.Data = DecodeErrorBody(dec.Body).Data
        ELSE /\ dec.out.kind = "APIResponseError"
             /\ dec.out.StatusCode = dec.StatusCode
             /\ dec.out.Body = dec.Body

C3_Witness ==
    /\ dec.called /\ dec.StatusCode = 409 /\ dec.Body = RawErrorNoData
    /\ result.kind = "ServerError" /\ result.StatusCode = 409
    /\ result.Message = "some error" /\ result.Code = 400

(* The closed set of variants DecodeAPIError can return.                   *)
ClassifiedKinds ==
    { "BadRequestError", "UnauthorizedError", "NotFoundError", "LeaseNotFoundError",
      "LeaseTemplateNotFoundError", "AccountNotFoundError", "ConflictError",
      "LeaseConflictError", "LeaseTemplateConflictError", "AccountConflictError",
      "ServerError", "FailResponseError", "APIResponseError" }

(* C4: DecodeAPIError is total: whatever the status code, body and path,   *)
(* it returns one error of the closed set, and that error's status code    *)
(* is the response's status code.                                          *)
C4_Total ==
    dec.called =>
        /\ dec.out.kind \in ClassifiedKinds
        /\ dec.out.StatusCode = dec.StatusCode
        /\ dec.StatusCode = resp.StatusCode
        /\ result = dec.out

C4_Witness ==
    /\ dec.called /\ dec.StatusCode = 403 /\ dec.Body = RawFailNoData
    /\ result.kind = "UnauthorizedError" /\ result.StatusCode = 403

(* C5: on status 500 with an Error Envelope body the error is a            *)
(* ServerError with StatusCode 500 whose Message, Code and Data are the    *)
(* envelope's message, code and data.                                      *)
C5_ServerError ==
    (dec.called /\ dec.StatusCode = 500 /\ IsErrorEnvelope(dec.Body)) =>
        /\ dec.out.kind = "ServerError"
        /\ dec.out.StatusCode = 500
        /\ dec.out.Message = DecodeErrorBody(dec.Body).Message
        /\ dec.out.Code = DecodeErrorBody(dec.Body).Code
        /\ dec.out.Data = DecodeErrorBody(dec.Body).Data
        /\ (dec.Body = RawErrorNoData =>
                dec.out.Message = "some error" /\ dec.out.Code = 400
                /\ dec.out.Data = JNull)

C5_Witness ==
    /\ dec.called /\ dec.StatusCode = 500 /\ dec.Body = RawError
    /\ result.kind = "ServerError" /\ result.StatusCode = 500
    /\ result.Message = "server error" /\ result.Code = 500
    /\ result.Data = JObj([foo |-> JStr("bar")])

(* The verb helpers, and those that carry a request body.                  *)
VerbHelpers == {"doGet", "doPost", "doPatch", "doPut", "doDelete"}

BodyCallers == {"doPost", "doPatch", "doPut", "CreateLeaseAsUser"}

(* C6: on status 400 with a Fail Envelope body the error is a              *)
(* BadRequestError carrying the envelope's detail-error list and the       *)
(* original request body: the bytes sent for POST, PATCH, PUT and          *)
(* CreateLeaseAsUser, nothing for GET and DELETE.                          *)
C6_BadRequestEchoesBody ==
    (dec.called /\ dec.StatusCode = 400 /\ IsFailEnvelope(dec.Body)) =>
        /\ result.kind = "BadRequestError"
        /\ result.StatusCode = 400
        /\ result.Errors = DecodeFailBody(dec.Body).Errors
        /\ (call.op \in BodyCallers => result.RequestBody = GoString(call.http.body))
        /\ (call.op \in {"doGet", "doDelete"} => result.RequestBody = "")
        /\ (call.op = "DecodeAPIError" => result.RequestBody = GoString(dec.reqBody))

C6_Witness ==
    /\ call.op = "doPatch" /\ call.http.sent
    /\ call.http.body = Bytes("{\"action\":\"Approve\"}")
    /\ resp.StatusCode = 400 /\ resp.Body = RawFailOne
    /\ result.kind = "BadRequestError"
    /\ result.RequestBody = "{\"action\":\"Approve\"}"
    /\ result.Errors = <<[Message |-> "conflict error"]>>

(* C7: on status 401 or 403 with a Fail Envelope body the error is an      *)
(* UnauthorizedError whose StatusCode is the actual status and which       *)
(* keeps no detail-error list, whatever the request path.                  *)
C7_Unauthorized ==
    (dec.called /\ dec.StatusCode \in {401, 403} /\ IsFailEnvelope(dec.Body)) =>
        /\ result.kind = "UnauthorizedError"
        /\ result.StatusCode = dec.StatusCode
        /\ "Errors" \notin DOMAIN result

C7_Witness ==
    /\ dec.called /\ dec.StatusCode = 403 /\ dec.Body = RawFailTwo
    /\ dec.Path = "/leases/abc"
    /\ result.kind = "UnauthorizedError" /\ result.StatusCode = 403

(* The response has a body and its Content-Type lacks "application/json".  *)
NonJSONResponse(rsp) ==
    rsp.ok /\ rsp.Body # "" /\ ~Contains(rsp.ContentType, "application/json")

(* C8: in every verb helper and for every status code, the verb's success  *)
(* statuses included, a response with a non-empty body whose Content-Type  *)
(* does not contain "application/json" (case-sensitive) yields the         *)
(* non-JSON APIRequestError, and DecodeAPIError is not reached.            *)
C8_ContentTypeFirst ==
    (call.op \in VerbHelpers /\ call.http.sent /\ NonJSONResponse(resp)) =>
        /\ result.kind = "APIRequestError"
        /\ result.Op = call.op
        /\ HasPrefix(result.Err.text, "non-JSON response")
        /\ ~dec.called

C8_Witness ==
    /\ call.op = "doGet" /\ call.http.sent
    /\ resp.StatusCode = 500 /\ resp.ContentType = "Application/JSON"
    /\ resp.Body = RawError
    /\ result.kind = "APIRequestError" /\ result.Op = "doGet"
    /\ ~dec.called

(* C9: the non-JSON error carries the response's declared content type     *)
(* and the response body text that was received, whole or truncated.       *)
C9_NonJSONCarriesBody ==
    (call.op \in VerbHelpers /\ call.http.sent /\ NonJSONResponse(resp)) =>
        /\ result.kind = "APIRequestError"
        /\ result.Err.contentType = resp.ContentType
        /\ result.Err.body # ""
        /\ HasPrefix(resp.Body, result.Err.body)

(* The statuses each verb helper accepts as success.                       *)
SuccessStatuses(op) ==
    CASE op = "doPost"   -> {200, 201}
      [] op = "doDelete" -> {200, 204}
      [] OTHER           -> {200}

(* C10: for a response that passes the content-type check, GET, PATCH and  *)
(* PUT succeed only on 200, POST on 200 or 201, DELETE on 200 or 204;      *)
(* every other status goes to DecodeAPIError, whose error the call         *)
(* returns, with the request body for POST/PATCH/PUT and nil for           *)
(* GET/DELETE.                                                             *)
C10_VerbSuccessSets ==
    (call.op \in VerbHelpers /\ call.http.sent /\ resp.ok /\ ~NonJSONResponse(resp)) =>
        IF resp.StatusCode \in SuccessStatuses(call.op)
        THEN result = Returned(resp) /\ ~dec.called
        ELSE /\ dec.called
             /\ dec.StatusCode = resp.StatusCode
             /\ dec.Body = resp.Body
             /\ dec.Path = URLPath(call.http.url)
             /\ dec.reqBody = (IF call.op \in {"doPost", "doPatch", "doPut"}
                               THEN call.http.body ELSE NilBytes)
             /\ result = dec.out
             /\ result.kind \in ClassifiedKinds

C10_Witness ==
    /\ call.op = "doDelete" /\ call.http.sent
    /\ resp.StatusCode = 201 /\ resp.ContentType = "application/json"
    /\ resp.Body = RawSuccess
    /\ dec.called /\ dec.reqBody = NilBytes
    /\ result.kind = "APIResponseError" /\ result.StatusCode = 201

----------------------------------------------------------------------------
(* Properties of the operation layer.  call.via is what the verb helper    *)
(* returned to the operation, result what the operation returned.          *)

(* The success set of the verb that sends the method.                      *)
SuccessOfMethod(method) ==
    CASE method = "POST"   -> {StatusOK, StatusCreated}
      [] method = "DELETE" -> {StatusOK, StatusNoContent}
      [] OTHER             -> {StatusOK}

(* The operations that return only an error.                               *)
ErrorOnlyOperations ==
    { "ReviewLease", "FreezeLease", "TerminateLease", "DeleteLeaseTemplate",
      "RetryCleanup", "EjectAccount" }

IsError(r) ==
    r.kind \in ClassifiedKinds \cup {"APIRequestError", "JSONDecodingError", "panic"}

(* A request went out and the answer has an empty body and a status of     *)
(* the verb's success set.                                                 *)
EmptySuccess ==
    /\ call.op # "none" /\ call.http.sent
    /\ resp.ok /\ resp.Body = RawEmpty
    /\ resp.StatusCode \in SuccessOfMethod(call.http.method)

(* C11 as stated: for every operation and verb an empty body with a status *)
(* of the success set is valid whatever the Content-Type, nothing is       *)
(* decoded and the call returns no error.                                  *)
C11_EmptyBodyValidForAll ==
    EmptySuccess => (~dec.called /\ ~IsError(result))

(* C11 amended: on an empty body with a status of the success set every    *)
(* verb helper returns the response whatever the Content-Type and          *)
(* DecodeAPIError is not invoked; an operation that returns only an error  *)
(* returns nil; an operation that unwraps a data payload decodes the empty *)
(* body and returns JSONDecodingError.                                     *)
C11_EmptyBodyValid ==
    EmptySuccess =>
        /\ ~dec.called
        /\ call.via.sent => call.via.result = Returned(resp)
        /\ result = (IF call.op \in ErrorOnlyOperations
                     THEN NilError ELSE JSONDecodingError)

C11_Witness ==
    /\ call.op = "DeleteLeaseTemplate" /\ call.http.sent
    /\ resp.StatusCode = 204 /\ resp.ContentType = "text/html"
    /\ resp.Body = RawEmpty
    /\ call.via.result = Returned(resp)
    /\ result = NilError

(* The string the server sent under key in the data object of a success    *)
(* envelope j, the empty string when it sent none.                         *)
SentFieldOf(j, key) ==
    IF j.t = "obj" /\ Has(j.v, "data") /\ j.v["data"].t = "obj"
       /\ Has(j.v["data"].v, key) /\ j.v["data"].v[key].t = "str"
    THEN j.v["data"].v[key].v
    ELSE ""

SentField(raw, key) == SentFieldOf(Parse(raw), key)

(* The LeaseId the create path derives from what the server sent.          *)
DerivedLeaseId(raw) ==
    EncodeToString("{\"userEmail\":\"" \o SentField(raw, "userEmail")
                       \o "\",\"uuid\":\"" \o SentField(raw, "uuid") \o "\"}")

(* C16: after a successful CreateLease or CreateLeaseAsUser the returned   *)
(* Lease's LeaseId is the standard base64 of                               *)
(* {"userEmail":<response userEmail>,"uuid":<response uuid>}, whatever     *)
(* leaseId the server sent or left out.                                    *)
C16_CreateDerivesLeaseId ==
    (call.op \in {"CreateLease", "CreateLeaseAsUser"}
        /\ result.kind = "CreateLeaseResponse") =>
        /\ result.Lease.LeaseId = DerivedLeaseId(resp.Body)
        /\ result.Lease.UserEmail = SentField(resp.Body, "userEmail")
        /\ result.Lease.UUID = SentField(resp.Body, "uuid")

C16_Witness ==
    /\ call.op = "CreateLeaseAsUser" /\ result.kind = "CreateLeaseResponse"
    /\ resp.StatusCode = 201 /\ resp.Body = RawSuccessServerId
    /\ SentField(resp.Body, "leaseId") = "server-id"
    /\ result.Lease.LeaseId =
          "eyJ1c2VyRW1haWwiOiJ1c2VyQGV4YW1wbGUuY29tIiwidXVpZCI6ImxlYXNlMTIzIn0="

(* C17: after a successful UpdateLease the returned Lease's LeaseId is the *)
(* base64 of {userEmail, uuid} built from the update response, recomputed  *)
(* by the client whatever leaseId the server sent.                         *)
C17_UpdateDerivesLeaseId ==
    (call.op = "UpdateLease" /\ result.kind = "UpdateLeaseResponse") =>
        result.Lease.LeaseId = DerivedLeaseId(resp.Body)

(* The leaseId strings the server sent in the items of a page object j.    *)
SentListLeaseIdsOf(j) ==
    IF j.t = "obj" /\ Has(j.v, "data") /\ j.v["data"].t = "obj"
       /\ Has(j.v["data"].v, "result") /\ j.v["data"].v["result"].t = "arr"
    THEN [i \in 1..Len(j.v["data"].v["result"].v) |->
            IF j.v["data"].v["result"].v[i].t = "obj"
               /\ Has(j.v["data"].v["result"].v[i].v, "leaseId")
               /\ j.v["data"].v["result"].v[i].v["leaseId"].t = "str"
            THEN j.v["data"].v["result"].v[i].v["leaseId"].v
            ELSE ""]
    ELSE <<>>

SentListLeaseIds(raw) == SentListLeaseIdsOf(Parse(raw))

C19_AsUserRequest ==
    (call.op = "CreateLeaseAsUser" /\ call.http.sent) =>
        /\ call.http.auth =
              Bearer(GenerateJWT([DisplayName |-> "GitHub",
                                  UserName |-> call.args.userEmail,
                                  Email |-> call.args.userEmail,
                                  Roles |-> <<"User">>],
                                 call.args.jwtSecret, 15))
        /\ call.http.auth # Bearer(Opaque(client.Token))
        /\ \A t \in OpsTokens :
              CreateLeaseAsUser(NewClient(client.BaseURL, t), call.args.req,
                                call.args.userEmail, call.args.jwtSecret,
                                resp).http.auth = call.http.auth

(* C19: the request CreateLeaseAsUser sends carries a token generated for  *)
(* the target userEmail (role User, 15 minutes) and never the client's     *)
(* token; clients that differ only in their token send the same            *)
(* credential; the call leaves the client as it was.                       *)
C19_AsUserCredential ==
    /\ []C19_AsUserRequest
    /\ [][call'.op = "CreateLeaseAsUser" => client' = client]_vars

C19_Witness ==
    /\ call.op = "CreateLeaseAsUser" /\ call.http.sent
    /\ client.Token = "token"
    /\ call.args.userEmail = "otheruser@example.com"
    /\ call.http.auth.scheme = "Bearer"
    /\ call.http.auth.cred.kind = "jwt"
    /\ call.http.auth.cred.User.Email = "otheruser@example.com"
    /\ call.http.auth.cred.ExpiresIn = 15

(* C20: apart from the credential CreateLeaseAsUser and CreateLease are    *)
(* equivalent: for the same request and the same server response, of any   *)
(* status, Content-Type and body, both return the same result or the same  *)
(* error with the same contents.                                           *)
C20_AsUserEquivalent ==
    (call.op = "CreateLeaseAsUser") =>
        result = CreateLease(client, call.args.req, resp).result

----------------------------------------------------------------------------
(* Properties of the drain.  served[k] is what the k-th fetchPage call     *)
(* returned, sent[k] the URL of the k-th page request.                     *)

(* The page cursor a request URL carries, as the server parses it.         *)
CursorIn(q) == IF "pageIdentifier" \in DOMAIN q THEN q["pageIdentifier"] ELSE ""

CursorOf(url) == CursorIn(ParseQuery(URLQuery(url)))

(* The items of the first n pages served, in page order and item order.    *)
RECURSIVE ServedItems(_)
ServedItems(n) == IF n = 0 THEN <<>> ELSE ServedItems(n - 1) \o served[n].items

(* N pages were fetched: non-empty cursors on 1..N-1, empty on page N.     *)
PagesComplete ==
    /\ Len(served) > 0
    /\ \A k \in 1..Len(served) :
          /\ served[k].err = NilError
          /\ served[k].next = "" <=> k = Len(served)

(* C12: when the fetches return N pages with non-empty cursors on pages    *)
(* 1..N-1 and an empty cursor on page N, the drain has returned the        *)
(* concatenation of the N pages' items in page order and item order, and   *)
(* it made exactly N fetch calls, one request each.                        *)
C12_DrainConcatenates ==
    PagesComplete =>
        /\ pc = "done"
        /\ result = [kind |-> "FetchAllReturn", isNil |-> FALSE,
                     Items |-> ServedItems(Len(served)), err |-> NilError]
        /\ Len(sent) = Len(served)
        /\ inflight = <<>>

C12_Witness ==
    /\ call.op = "FetchAllLeases" /\ pc = "done"
    /\ Len(served) = 3 /\ PagesComplete
    /\ served[1].next = "page2" /\ served[2].next = "p=3&x y"
    /\ [i \in 1..Len(result.Items) |-> result.Items[i].UUID]
          = <<"lease123", "lease456", "lease789", "lease123">>

(* C13: if the fetch of page k fails the drain returns that error at once: *)
(* k is the last fetch call, no request follows, and no items are          *)
(* returned although pages 1..k-1 were accumulated.                        *)
C13_FetchErrorEndsDrain ==
    \A k \in 1..Len(served) :
        served[k].err # NilError =>
            /\ k = Len(served)
            /\ pc = "done"
            /\ result = [kind |-> "FetchAllReturn", isNil |-> TRUE,
                         Items |-> <<>>, err |-> served[k].err]
            /\ Len(sent) <= k
            /\ inflight = <<>>

C13_Witness ==
    /\ pc = "done" /\ Len(served) = 3
    /\ served[3].err.kind = "ServerError"
    /\ Len(allItems) = 3
    /\ result.isNil /\ result.Items = <<>> /\ result.err = served[3].err

(* C14: page fetches are strictly sequential, never two requests in        *)
(* flight; the first request carries the caller's cursor and request k+1   *)
(* carries verbatim the non-empty nextPageIdentifier of page k.            *)
C14_SequentialVerbatimCursor ==
    /\ Len(inflight) <= 1
    /\ Len(inflight) = 1 <=> pc = "wait"
    /\ Len(sent) = (IF pc = "wait" THEN Len(served) + 1
                    ELSE IF sent = <<>> THEN 0 ELSE Len(served))
    /\ Len(sent) >= 1 => CursorOf(sent[1]) = call.args.req.PageIdentifier
    /\ \A k \in 1..(Len(sent) - 1) :
          /\ served[k].next # ""
          /\ CursorOf(sent[k + 1]) = served[k].next

C14_Witness ==
    /\ pc = "wait" /\ Len(sent) = 3
    /\ call.args.req.PageIdentifier = "start"
    /\ CursorOf(sent[1]) = "start"
    /\ served[2].next = "p=3&x y"
    /\ CursorOf(sent[3]) = "p=3&x y"

(* Some fetch returned an error or an empty next-page identifier.          *)
TerminalServed ==
    /\ Len(served) > 0
    /\ \/ served[Len(served)].err # NilError
       \/ served[Len(served)].next = ""

(* C15: paginateAll has returned exactly when some fetch returned an error *)
(* or an empty cursor; until then the loop goes on to the next fetch       *)
(* whatever the number of pages and whatever the cursors were, so it       *)
(* returns once the server ends the pages and never against a server       *)
(* whose every page has a non-empty cursor.                                *)
C15_ReturnsIffTerminalFetch ==
    /\ [](pc = "done" <=> TerminalServed)
    /\ \A n \in 0..(MaxFetches - 1) :
          (pc = "fetch" /\ Len(served) = n) ~> (Len(served) = n + 1)

C15_Witness ==
    /\ pc = "fetch" /\ Len(served) >= 3
    /\ ~TerminalServed
    /\ served[1].next = served[2].next /\ served[2].next = served[3].next
    /\ served[3].items = <<>>
    /\ Len(allItems) = 4

----------------------------------------------------------------------------
(* Parameter validation.                                                   *)

ValidatingOperations ==
    { "GetLeaseByID", "CreateLease", "CreateLeaseAsUser", "UpdateLease",
      "ReviewLease", "FreezeLease", "TerminateLease", "UpdateLeaseTemplate",
      "DeleteLeaseTemplate", "RetryCleanup", "EjectAccount" }

(* The call in the state was made with a nil request, with an empty        *)
(* required identifier or, for ReviewLease, with an unknown Action.        *)
InvalidArguments ==
    /\ call.op \in ValidatingOperations
    /\ LET r == call.args.req
       IN  \/ r.nil
           \/ CASE call.op \in {"GetLeaseByID", "UpdateLease"} -> r.LeaseID = ""
                [] call.op \in {"CreateLease", "CreateLeaseAsUser"} ->
                       r.LeaseTemplateUUID = ""
                [] call.op = "ReviewLease" ->
                       r.LeaseID = "" \/ r.Action \notin {"Approve", "Deny"}
                [] call.op = "UpdateLeaseTemplate" -> r.LeaseTemplateID = ""
                [] OTHER -> r.id = ""

(* C21: the eleven validating operations, called with a nil request or an  *)
(* empty required identifier (ReviewLease also with an Action other than   *)
(* Approve or Deny), return an APIRequestError with Op "param" and send    *)
(* no HTTP request.                                                        *)
C21_ParamErrorSendsNothing ==
    InvalidArguments =>
        /\ result.kind = "APIRequestError"
        /\ result.Op = "param"
        /\ ~call.http.sent
        /\ resp = NoResponse

C21_Witness ==
    /\ call.op = "EjectAccount"
    /\ ~call.args.req.nil /\ call.args.req.id = ""
    /\ result = APIRequestError("param", "", [text |-> "AwsAccountId is required"])
    /\ call.http = NotSent

(* C22: RegisterAccount called with a nil request or an empty AwsAccountId *)
(* fails with the parameter-validation APIRequestError and sends no HTTP   *)
(* request.                                                                *)
C22_RegisterAccountValidates ==
    (/\ call.op = "RegisterAccount"
     /\ (call.args.req.nil \/ call.args.req.AwsAccountId = ""))
        => /\ result.kind = "APIRequestError"
           /\ result.Op = "param"
           /\ ~call.http.sent

(* C23: when the GET of GetConfigurations fails, GetConfigurations returns *)
(* the error of doGet, and neither faults nor reports a result.            *)
C23_ConfigurationsErrorReturned ==
    (/\ call.op = "GetConfigurations"
     /\ call.via.result.kind # "response")
        => /\ result = call.via.result
           /\ IsError(result)
           /\ result # Panic

----------------------------------------------------------------------------
(* Requests per call.                                                      *)

(* Every fetch so far returned a page with a cursor to the next one.       *)
AllServedGoOn ==
    \A k \in 1..Len(served) : served[k].err = NilError /\ served[k].next # ""

----------------------------------------------------------------------------
(* Request bodies.                                                         *)

(* The keys of a JSON object whose values are scalars: the quoted strings  *)
(* that follow "{" or "," and are followed by ":".                         *)
ObjectKeys(s) ==
    { SubSeq(s, i + 1, j - 1) :
        <<i, j>> \in { p \in (2..Len(s)) \X (2..Len(s)) :
                        /\ p[1] < p[2] /\ p[2] < Len(s)
                        /\ SubSeq(s, p[1] - 1, p[1]) \in {"{\"", ",\""}
                        /\ SubSeq(s, p[2], p[2] + 1) = "\":"
                        /\ \A k \in (p[1] + 1)..(p[2] - 1) : SubSeq(s, k, k) # "\"" } }

(* The optional fields the caller set, by their JSON names.                *)
SetFields(r) ==
    { k \in {"maxSpend", "budgetThresholds", "expirationDate", "durationThresholds"} :
        CASE k = "maxSpend"         -> r.MaxSpend.set
          [] k = "budgetThresholds" -> r.BudgetThresholds.set
          [] k = "expirationDate"   -> r.ExpirationDate.set
          [] OTHER                  -> r.DurationThresholds.set }

(* C26: the body of the PATCH UpdateLease sends has a key for exactly the  *)
(* optional fields that were set and no other key; the lease identifier    *)
(* is not a body field.                                                    *)
C26_SparseUpdateBody ==
    (call.op = "UpdateLease" /\ call.http.sent) =>
        /\ call.http.method = "PATCH"
        /\ ObjectKeys(call.http.body.s) = SetFields(call.args.req)

----------------------------------------------------------------------------
(* The success path.                                                       *)

(* What the operation op returns for the arguments args and the answer rt. *)
ResultOf(op, c, args, rt) ==
    CASE op = "GetLeases"           -> GetLeases(c, args.req, rt).result
      [] op = "GetLeaseByID"        -> GetLeaseByID(c, args.req, rt).result
      [] op = "CreateLease"         -> CreateLease(c, args.req, rt).result
      [] op = "CreateLeaseAsUser"   ->
             CreateLeaseAsUser(c, args.req, args.userEmail, args.jwtSecret, rt).result
      [] op = "UpdateLease"         -> UpdateLease(c, args.req, rt).result
      [] op = "ReviewLease"         -> ReviewLease(c, args.req, rt).result
      [] op = "FreezeLease"         -> FreezeLease(c, args.req, rt).result
      [] op = "TerminateLease"      -> TerminateLease(c, args.req, rt).result
      [] op = "RetryCleanup"        -> RetryCleanup(c, args.req, rt).result
      [] op = "EjectAccount"        -> EjectAccount(c, args.req, rt).result
      [] op = "DeleteLeaseTemplate" -> DeleteLeaseTemplate(c, args.req, rt).result
      [] op = "UpdateLeaseTemplate" -> UpdateLeaseTemplate(c, args.req, rt).result
      [] op = "RegisterAccount"     -> RegisterAccount(c, args.req, rt).result
      [] op = "GetLeaseTemplates"   -> GetLeaseTemplates(c, args.req, rt).result
      [] op = "GetAccounts"         -> GetAccounts(c, args.req, rt).result
      [] op = "GetConfigurations"   -> GetConfigurations(c, rt).result

(* The body is an envelope whose status is a string other than "success".  *)
NonSuccessEnvelope(body) ==
    /\ Parse(body).t = "obj"
    /\ "status" \in DOMAIN Parse(body).v
    /\ Parse(body).v.status.t = "str"
    /\ Parse(body).v.status.v # "success"

(* The body with the same data and the status "success", where the model   *)
(* has one.                                                                *)
SuccessTwin(body) ==
    CASE body = RawFailLease   -> RawSuccess
      [] body = RawErrorNoData -> RawSuccessNoData
      [] OTHER                 -> body

(* A request went out and a JSON answer came back whose status code is in  *)
(* the verb's success set and whose envelope status is not "success".      *)
NonSuccessOnSuccessPath ==
    /\ call.op # "none" /\ call.http.sent
    /\ resp.ok /\ isJSONResponse(resp).isJSON
    /\ resp.StatusCode \in SuccessOfMethod(call.http.method)
    /\ NonSuccessEnvelope(resp.Body)

(* C30: on the success path the status code alone decides.  A JSON answer  *)
(* with a success code and an envelope status "fail" or "error" gives a    *)
(* nil error, DecodeAPIError is not called, and the result is the one the  *)
(* same data gives under the status "success".                             *)
C30_StatusCodeAloneDecides ==
    NonSuccessOnSuccessPath =>
        /\ ~IsError(result)
        /\ ~dec.called
        /\ call.op \in ErrorOnlyOperations => result = NilError
        /\ result = ResultOf(call.op, client, call.args,
                             [resp EXCEPT !.Body = SuccessTwin(resp.Body)])

C30_Witness ==
    /\ NonSuccessOnSuccessPath
    /\ call.op = "GetLeaseByID"
    /\ resp.Body = RawFailLease
    /\ result.kind = "GetLeaseByIDResponse"
    /\ result.Lease.UUID = "lease123"
    /\ result.Lease.UserEmail = "user@example.com"

(* The same with no data at all: the result is zero-valued.                *)
C30_WitnessNoData ==
    /\ NonSuccessOnSuccessPath
    /\ call.op = "UpdateLease"
    /\ resp.Body = RawErrorNoData
    /\ result.kind = "UpdateLeaseResponse"
    /\ result.Lease.UUID = ""

----------------------------------------------------------------------------
(* Classification through the client.                                      *)

(* The resource an operation addresses by an identifier in the path.       *)
ResourceOf(op) ==
    CASE op \in {"GetLeaseByID", "UpdateLease", "ReviewLease", "FreezeLease",
                 "TerminateLease"}                          -> "Lease"
      [] op \in {"UpdateLeaseTemplate", "DeleteLeaseTemplate"} -> "LeaseTemplate"
      [] op \in {"RetryCleanup", "EjectAccount"}             -> "Account"
      [] OTHER                                               -> ""

(* C28: whatever the configured BaseURL, also one with a path component,   *)
(* a 404 or 409 Fail Envelope answer to an operation on a lease, a lease   *)
(* template or an account yields that resource's NotFoundError or          *)
(* ConflictError, not the generic one.                                     *)
C28_ResourceErrorAnyBaseURL ==
    (/\ call.op # "none" /\ ResourceOf(call.op) # ""
     /\ call.http.sent /\ resp.ok /\ isJSONResponse(resp).isJSON
     /\ resp.StatusCode \in {404, 409}
     /\ FailGate(DecodeFailBody(resp.Body)))
        => result.kind = ResourceOf(call.op) \o
                            (IF resp.StatusCode = 404 THEN "NotFoundError"
                             ELSE "ConflictError")

----------------------------------------------------------------------------
(* Draining with a nil request.                                            *)

(* C29: FetchAllLeases, FetchAllLeaseTemplates and FetchAllAccounts called *)
(* with a nil request behave as with an empty one for any number of pages: *)
(* the first page is fetched with no query parameters, every further page  *)
(* with the returned cursor, and the call does not fault when the cursor   *)
(* is set on the request.                                                  *)
C29_NilRequestDrains ==
    (call.op \in FetchAllOperations /\ call.args.req.nil) =>
        /\ pc # "fault"
        /\ result # Panic
        /\ Len(sent) >= 1 => URLQuery(sent[1]) = ""
        /\ \A k \in 1..Len(served) :
              (served[k].err = NilError /\ served[k].next # "" /\ pc # "fetch")
                  => (Len(sent) > k /\ CursorOf(sent[k + 1]) = served[k].next)
                        \/ (k = Len(served) /\ Len(served) = MaxFetches)

----------------------------------------------------------------------------
(* Query builders (types.go:154-259).  A behaviour builds the parameters   *)
(* of one request, encodes them as GetLeases and its siblings do, and      *)
(* reads the query back with the standard parser.                          *)

QueryBuilderTypes ==
    { "GetLeasesRequest", "GetLeaseByIDRequest", "CreateLeaseRequest",
      "GetLeaseTemplatesRequest", "GetAccountsRequest" }

(* Faulty variant of BuildCreateLeaseQuery: comments is set even if empty. *)
BuildCreateLeaseQuery_CommentsAlways(r) ==
    IF r.nil THEN NoValues
    ELSE LET field == [leaseTemplateUuid |-> r.LeaseTemplateUUID, comments |-> r.Comments]
             set   == {k \in DOMAIN field : field[k] # "" \/ k = "comments"}
         IN  [k \in set |-> field[k]]

(* BuildQuery of CreateLeaseRequest.                                       *)
BuildCreateLeaseQuery(r) ==
    IF r.nil THEN NoValues
    ELSE LET field == [leaseTemplateUuid |-> r.LeaseTemplateUUID, comments |-> r.Comments]
             set   == {k \in DOMAIN field : field[k] # ""}
         IN  [k \in set |-> field[k]]

(* BuildQuery of GetLeaseByIDRequest.                                      *)
BuildLeaseByIDQuery(r) ==
    IF r.nil \/ r.LeaseID = "" THEN NoValues ELSE [k \in {"leaseId"} |-> r.LeaseID]

(* BuildQuery of the request type t; every return value is a non-nil map   *)
(* (url.Values{} also for the nil receiver).                               *)
BuildQueryOf(t, r) ==
    [kind |-> "url.Values", isNilMap |-> FALSE,
     values |-> CASE t = "GetLeasesRequest"    -> BuildQuery(r)
                  [] t = "GetLeaseByIDRequest" -> BuildLeaseByIDQuery(r)
                  [] t = "CreateLeaseRequest"  -> BuildCreateLeaseQuery(r)
                  [] OTHER                     -> BuildPageQuery(r)]

FieldValues == {"", "abc", "x y&z=1"}

QueryRequests(t) ==
    CASE t = "GetLeasesRequest" ->
            {NilGetLeasesRequest} \cup
            { GetLeasesRequest(p, s, e) : p \in FieldValues, s \in {"", "10"},
                                          e \in {"", "user@example.com"} }
      [] t = "GetLeaseByIDRequest" ->
            {NilGetLeaseByIDRequest} \cup { GetLeaseByIDRequest(i) : i \in FieldValues }
      [] t = "CreateLeaseRequest" ->
            {NilRequest} \cup
            { CreateLeaseRequest(u, c) : u \in FieldValues, c \in FieldValues }
      [] OTHER ->
            {NilPageRequest} \cup
            { PageRequest(p, s) : p \in FieldValues, s \in {"", "10", "x y&z=1"} }

InitQuery ==
    /\ client \in Clients
    /\ call = NoCall
    /\ resp = NoResponse
    /\ dec = NotCalled
    /\ result = [kind |-> "none"]
    /\ NoDrain

(* q := req.BuildQuery()                                                   *)
CallBuildQuery ==
    /\ Idle
    /\ \E t \in QueryBuilderTypes : \E r \in QueryRequests(t) :
          /\ call' = [op |-> "BuildQuery", http |-> NotSent,
                      args |-> [type |-> t, req |-> r], via |-> NoVerb]
          /\ result' = BuildQueryOf(t, r)
    /\ UNCHANGED <<client, resp, dec, drainVars>>

(* q.Encode()                                                              *)
CallEncode ==
    /\ call.op = "BuildQuery" /\ result.kind = "url.Values"
    /\ result' = [kind |-> "RawQuery", raw |-> Encode(result.values)]
    /\ UNCHANGED <<client, call, resp, dec, drainVars>>

(* url.ParseQuery(raw)                                                     *)
CallParseQuery ==
    /\ call.op = "BuildQuery" /\ result.kind = "RawQuery"
    /\ result' = [kind |-> "ParsedQuery", raw |-> result.raw,
                  values |-> ParseQuery(result.raw)]
    /\ UNCHANGED <<client, call, resp, dec, drainVars>>

NextQuery ==
    \/ CallBuildQuery
    \/ CallEncode
    \/ CallParseQuery

SpecQuery == InitQuery /\ [][NextQuery]_vars

(* The fields of a request with their parameter names.                     *)
ParametersOf(t, r) ==
    CASE t = "GetLeasesRequest" ->
            { <<"pageIdentifier", r.PageIdentifier>>, <<"pageSize", r.PageSize>>,
              <<"userEmail", r.UserEmail>> }
      [] t = "GetLeaseByIDRequest" -> { <<"leaseId", r.LeaseID>> }
      [] t = "CreateLeaseRequest" ->
            { <<"leaseTemplateUuid", r.LeaseTemplateUUID>>, <<"comments", r.Comments>> }
      [] OTHER ->
            { <<"pageIdentifier", r.PageIdentifier>>, <<"pageSize", r.PageSize>> }

(* One parameter per non-empty field; none for a nil receiver.             *)
ExpectedParameters ==
    IF call.args.req.nil THEN {}
    ELSE { p \in ParametersOf(call.args.type, call.args.req) : p[2] # "" }

PairsOf(q) == { <<k, q[k]>> : k \in DOMAIN q }

(* C27: BuildQuery of each of the five request types yields exactly one    *)
(* parameter per non-empty field with that field's value: the encoded      *)
(* query parses back to exactly those fields, all fields empty gives an    *)
(* empty query, and a nil receiver gives an empty, non-nil parameter set.  *)
C27_BuildQueryRoundTrip ==
    call.op = "BuildQuery" =>
        /\ result.kind = "url.Values" =>
              /\ PairsOf(result.values) = ExpectedParameters
              /\ ~result.isNilMap
        /\ result.kind = "RawQuery" =>
              (result.raw = "" <=> ExpectedParameters = {})
        /\ result.kind = "ParsedQuery" =>
              PairsOf(result.values) = ExpectedParameters

C27_Witness ==
    /\ call.op = "BuildQuery" /\ call.args.type = "CreateLeaseRequest"
    /\ call.args.req = CreateLeaseRequest("abc", "x y&z=1")
    /\ result.kind = "ParsedQuery"
    /\ result.raw = "comments=x+y%26z%3D1&leaseTemplateUuid=abc"
    /\ result.values = [leaseTemplateUuid |-> "abc", comments |-> "x y&z=1"]

(* The nil receiver.                                                       *)
C27_WitnessNil ==
    /\ call.op = "BuildQuery" /\ call.args.type = "GetAccountsRequest"
    /\ call.args.req.nil
    /\ result.kind = "RawQuery" /\ result.raw = ""

----------------------------------------------------------------------------
(* Calls in parallel on one Client (client.go:16-54).  Each caller owns    *)
(* its request object and runs one operation; the steps of the callers     *)
(* interleave.  In this specification call, resp, dec, result, pc,         *)
(* drainReq, allItems and served hold one value per caller, inflight is    *)
(* the set of requests on the wire and sent the log of them.               *)

Callers == {1, 2}

(* The fetches a drain makes at most in this specification.                *)
MaxParFetches == 2

(* Faulty variant of RoundTrip: the header is set on the caller's request. *)
RoundTrip_NoClone(token, req) ==
    IF token # ""
    THEN [req  |-> [req EXCEPT !.auth = Bearer(Opaque(token))],
          wire |-> [req EXCEPT !.auth = Bearer(Opaque(token))]]
    ELSE [req |-> req, wire |-> req]

(* authTransport.RoundTrip: with a token, the request is cloned and the    *)
(* clone gets the Authorization header; req is the caller's request after  *)
(* the call, wire what the base transport sends.                           *)
RoundTrip(token, req) ==
    IF token # ""
    THEN [req |-> req, wire |-> [req EXCEPT !.auth = Bearer(Opaque(token))]]
    ELSE [req |-> req, wire |-> req]

ParClients == { NewClient("https://isb.example.com", t) : t \in {"token", ""} }

ParCalls ==
    { [op |-> "GetLeaseByID", req |-> GetLeaseByIDRequest("abc")],
      [op |-> "CreateLeaseAsUser", req |-> CreateLeaseRequest("tpl", "")],
      [op |-> "FetchAllLeases", req |-> GetLeasesRequest("", "10", "")] }

ParRoundTrips(op) ==
    IF op \in FetchAllOperations
    THEN { NoResponse, Response(200, "application/json", RawPageA),
           Response(200, "application/json", RawPageLast) }
    ELSE { NoResponse, Response(200, "application/json", RawSuccess),
           Response(404, "application/json", RawFailOne) }

(* One request of the operation op: what it puts on the wire and what it   *)
(* returns when the network answers rt.  For a FetchAll operation this is  *)
(* one call of its closure.                                                *)
ParStep(op, c, r, args, rt) ==
    CASE op \in FetchAllOperations -> fetchPage(op, c, r, rt)
      [] op = "GetLeaseByID"       -> GetLeaseByID(c, r, rt)
      [] op = "CreateLeaseAsUser"  ->
             WithNoVerb(CreateLeaseAsUser(c, r, args.userEmail, args.jwtSecret, rt))

(* The http.Request the operation builds: the verb helpers set no          *)
(* Authorization header, CreateLeaseAsUser sets its own.                   *)
OwnRequest(op, h) == IF op = "CreateLeaseAsUser" THEN h ELSE [h EXCEPT !.auth = NoAuth]

(* c.HTTPClient.Do goes through authTransport, customClient.Do does not.   *)
DoRequest(op, c, req) ==
    IF op = "CreateLeaseAsUser" THEN [req |-> req, wire |-> req]
    ELSE RoundTrip(c.Token, req)

InitPar ==
    /\ client \in ParClients
    /\ call = [i \in Callers |-> NoCall]
    /\ resp = [i \in Callers |-> NoResponse]
    /\ dec = [i \in Callers |-> NotCalled]
    /\ result = [i \in Callers |-> [kind |-> "none"]]
    /\ pc = [i \in Callers |-> "idle"]
    /\ drainReq = [i \in Callers |-> NilGetLeasesRequest]
    /\ allItems = [i \in Callers |-> <<>>]
    /\ served = [i \in Callers |-> <<>>]
    /\ inflight = {}
    /\ sent = <<>>

(* Caller i calls an operation with a request object of its own.           *)
ParBegin(i) ==
    /\ pc[i] = "idle"
    /\ \E k \in ParCalls :
          /\ call' = [call EXCEPT ![i] =
                        [op |-> k.op, http |-> NotSent, httpReq |-> NotSent,
                         args |-> [req |-> k.req, userEmail |-> "otheruser@example.com",
                                   jwtSecret |-> "testsecret"],
                         via |-> NoVerb]]
          /\ drainReq' = [drainReq EXCEPT ![i] = k.req]
    /\ pc' = [pc EXCEPT ![i] = "fetch"]
    /\ UNCHANGED <<client, resp, dec, result, allItems, served, inflight, sent>>

(* The call of caller i builds its request and hands it to the transport.  *)
ParSendOf(i, d) ==
    /\ call' = [call EXCEPT ![i].httpReq = d.req, ![i].http = d.wire]
    /\ inflight' = inflight \cup {[id |-> i, http |-> d.wire]}
    /\ sent' = Append(sent, [id |-> i, http |-> d.wire])
    /\ pc' = [pc EXCEPT ![i] = "wait"]
    /\ UNCHANGED <<client, resp, dec, result, drainReq, allItems, served>>

ParSend(i) ==
    /\ pc[i] = "fetch" /\ Len(served[i]) < MaxParFetches
    /\ ParSendOf(i, DoRequest(call[i].op, client,
                     OwnRequest(call[i].op,
                        ParStep(call[i].op, client, drainReq[i], call[i].args,
                                NoResponse).http)))

(* The page a fetch returned, with the answer it was decoded from.         *)
ServedPage(page, rt) ==
    [err |-> page.err, items |-> page.items, next |-> page.next, rt |-> rt]

(* The answer to the request of caller i arrives and its call goes on: an  *)
(* operation returns, a drain takes the next turn of its loop.             *)
ParReceiveOf(i, rt, r, next) ==
    /\ inflight' = inflight \ {[id |-> i, http |-> call[i].http]}
    /\ resp' = [resp EXCEPT ![i] = rt]
    /\ dec' = [dec EXCEPT ![i] = r.dec]
    /\ IF call[i].op \in FetchAllOperations
       THEN /\ served' = [served EXCEPT ![i] = Append(@, ServedPage(PageOf(r.result), rt))]
            /\ pc' = [pc EXCEPT ![i] = next.pc]
            /\ allItems' = [allItems EXCEPT ![i] = next.allItems]
            /\ drainReq' = [drainReq EXCEPT ![i] = next.req]
            /\ result' = [result EXCEPT ![i] = next.ret]
       ELSE /\ result' = [result EXCEPT ![i] = r.result]
            /\ pc' = [pc EXCEPT ![i] = "done"]
            /\ UNCHANGED <<served, allItems, drainReq>>
    /\ UNCHANGED <<client, call, sent>>

ParReceiveFrom(i, rt, r) ==
    ParReceiveOf(i, rt, r, AfterFetch(allItems[i], drainReq[i], PageOf(r.result)))

ParReceive(i) ==
    /\ pc[i] = "wait"
    /\ \E rt \in ParRoundTrips(call[i].op) :
          ParReceiveFrom(i, rt, ParStep(call[i].op, client, drainReq[i], call[i].args, rt))

BeginCall == \E i \in Callers : ParBegin(i)

SendRequest == \E i \in Callers : ParSend(i)

ReceiveResponse == \E i \in Callers : ParReceive(i)

NextPar ==
    \/ BeginCall
    \/ SendRequest
    \/ ReceiveResponse

SpecPar == InitPar /\ [][NextPar]_vars

(* The drain of caller i run alone over the answers rts: the state of its  *)
(* loop after the last of them.                                            *)
RECURSIVE DrainAlone(_, _, _, _, _)
DrainAlone(op, c, acc, r, rts) ==
    LET next == AfterFetch(acc, r, PageOf(fetchPage(op, c, r, Head(rts)).result))
    IN  IF Len(rts) = 1 \/ next.pc # "fetch" THEN next
        ELSE DrainAlone(op, c, next.allItems, next.req, Tail(rts))

AnswersOf(i) == [k \in 1..Len(served[i]) |-> served[i][k].rt]

(* The call of caller i has the outcome it has when run alone on the same  *)
(* client against the same answers.                                        *)
AsAlone(i) ==
    IF call[i].op \in FetchAllOperations
    THEN Len(served[i]) > 0 =>
            LET alone == DrainAlone(call[i].op, client, <<>>, call[i].args.req,
                                    AnswersOf(i))
            IN  /\ (pc[i] = "wait" \/ pc[i] = alone.pc)
                /\ result[i] = alone.ret
                /\ allItems[i] = alone.allItems
                /\ drainReq[i] = alone.req
    ELSE pc[i] = "done" =>
            result[i] = ParStep(call[i].op, client, call[i].args.req, call[i].args,
                                resp[i]).result

(* The request of caller i on the wire carries the credential of its own   *)
(* call, and the transport left the call's own request as it was built.    *)
OwnCredential(i) ==
    call[i].http.sent =>
        /\ call[i].http =
              ParStep(call[i].op, client, drainReq[i], call[i].args, NoResponse).http
              \/ pc[i] # "wait"
        /\ call[i].http.auth =
              (IF call[i].op = "CreateLeaseAsUser"
               THEN Bearer(GenerateJWT(NewUserUserClaims(call[i].args.userEmail),
                                       call[i].args.jwtSecret, JWTValidityMinutes))
               ELSE RoundTripAuth(client))
        /\ call[i].op # "CreateLeaseAsUser" => call[i].httpReq.auth = NoAuth
        /\ [id |-> i, http |-> call[i].http] \in inflight <=> pc[i] = "wait"

====
